---- MODULE Spec2Model ----
(***************************************************************************)
(* A model of pypod's protocol stack.  This part models the AFC file       *)
(* protocol client (src/pypod/core/afc.py): request framing, the handle    *)
(* table, seek/read/write and client shutdown, against an AFC device.      *)
(*                                                                         *)
(* Byte strings are kept symbolically: a byte string is a sequence of      *)
(* segments [src, lo, hi), each standing for the bytes lo..hi-1 of the     *)
(* source buffer src ("d": the caller's data, "i": content that was on the *)
(* device before, "z": zero fill).  Lengths are the real lengths, so the   *)
(* chunk sizes of the code are used unscaled.                              *)
(***************************************************************************)
EXTENDS Integers, Sequences, FiniteSets, TLC

MAXIMUM_READ_SIZE == 65536

MAXIMUM_WRITE_SIZE == 32768

\* Bounds of the model.
MaxHandle == 2

MaxCalls == 3

\* The longest data _as_dict is given
MaxData == 5

\* How many times a thread opens a handle
MaxRounds == 2

\* The tag at which the mux connection is left alone
MaxTag == 4

\* The most devices the listener is told of
MaxDevices == 2

\* The largest max_attempts given to find_device
MaxAttempts == 2

\* The most service channels a LockdownClient is asked for
MaxChannels == 2

HandleIds == 1..MaxHandle

Paths == {"/a", "/b"}

\* Lengths of the caller's data: 0, around one write chunk, more than one read chunk.
DataLens == {0, 5, MAXIMUM_WRITE_SIZE - 1, MAXIMUM_WRITE_SIZE, MAXIMUM_WRITE_SIZE + 1, 100000}

----------------------------------------------------------------------------
(* Byte strings *)

SegLen(s) == s.hi - s.lo

Seg(src, lo, hi) == [src |-> src, lo |-> lo, hi |-> hi]

Zeros(n) == IF n > 0 THEN <<Seg("z", 0, n)>> ELSE <<>>

Data(n) == IF n > 0 THEN <<Seg("d", 0, n)>> ELSE <<>>

RECURSIVE BLen(_)
BLen(b) == IF b = <<>> THEN 0 ELSE SegLen(Head(b)) + BLen(Tail(b))

\* a + b
Cat(a, b) ==
    IF a = <<>> THEN b
    ELSE IF b = <<>> THEN a
    ELSE LET x == a[Len(a)]
             y == b[1]
         IN  IF x.src = "z" /\ y.src = "z"
             THEN SubSeq(a, 1, Len(a) - 1) \o <<Seg("z", 0, SegLen(x) + SegLen(y))>> \o Tail(b)
             ELSE IF x.src = y.src /\ x.hi = y.lo
             THEN SubSeq(a, 1, Len(a) - 1) \o <<Seg(x.src, x.lo, y.hi)>> \o Tail(b)
             ELSE a \o b

\* b[:n]
RECURSIVE Take(_, _)
Take(b, n) ==
    IF n <= 0 \/ b = <<>> THEN <<>>
    ELSE LET s == Head(b)
         IN  IF SegLen(s) <= n
             THEN Cat(<<s>>, Take(Tail(b), n - SegLen(s)))
             ELSE IF s.src = "z" THEN <<Seg("z", 0, n)>> ELSE <<Seg(s.src, s.lo, s.lo + n)>>

\* b[n:]
RECURSIVE Drop(_, _)
Drop(b, n) ==
    IF n <= 0 \/ b = <<>> THEN b
    ELSE LET s == Head(b)
         IN  IF SegLen(s) <= n
             THEN Drop(Tail(b), n - SegLen(s))
             ELSE IF s.src = "z"
                  THEN <<Seg("z", 0, SegLen(s) - n)>> \o Tail(b)
                  ELSE <<Seg(s.src, s.lo + n, s.hi)>> \o Tail(b)

\* b[from:to] for 0 <= from
Slice(b, from, to) == Take(Drop(b, from), to - from)

\* b with the bytes from pos on replaced by c (b is zero-padded up to pos)
Overwrite(b, pos, c) ==
    LET padded == IF BLen(b) < pos THEN Cat(b, Zeros(pos - BLen(b))) ELSE b
    IN  Cat(Cat(Take(padded, pos), c), Drop(padded, pos + BLen(c)))

----------------------------------------------------------------------------
(* The handle table: a dict int -> str, kept in insertion order *)

TableIds(t) == {t[i].h : i \in DOMAIN t}

HasHandle(t, h) == h \in TableIds(t)

PathOf(t, h) == t[CHOOSE i \in DOMAIN t : t[i].h = h].path

\* self._handles[handle] = path
TablePut(t, h, path) ==
    IF HasHandle(t, h)
    THEN [i \in DOMAIN t |-> IF t[i].h = h THEN [h |-> h, path |-> path] ELSE t[i]]
    ELSE Append(t, [h |-> h, path |-> path])

\* self._handles.pop(handle, '(UNKNOWN)')
TablePop(t, h) == SelectSeq(t, LAMBDA e : e.h # h)

----------------------------------------------------------------------------
(* Packets and the world a call runs in.                                   *)
(* A world holds the device (files, dopen), the client (handles,           *)
(* packet_num, service), the packets the call has sent so far (log), the   *)
(* faults the channel and the device inject into this call (the requests   *)
(* numbered faults fail: fkind "status" is a non-success STATUS reply,     *)
(* "send" a failing socket send), and the outcome of the last step: the    *)
(* exception raised (exc, "" for none), the status (afc) and the reply's   *)
(* value (num, bytes).  A logged packet carries what was handed to         *)
(* _send_packet, the fault injected into it (fault), whether the socket    *)
(* took it (sent) and the reply's status and number (reply, rnum).         *)

\* if mtime < 2_000_000_000
MTIME_LIMIT == 2000000000

\* mtime *= 1_000_000_000
NS_PER_S == 1000000000

\* A Python int of a time: its sign, and the four digits of its magnitude to the base
\* NS_PER_S, the highest first (every int below 10^36 in magnitude)
NoTime == [neg |-> FALSE, d |-> <<0, 0, 0, 0>>]

\* mtime < n, for a limit n of at most two digits
TimeBelow(t, n) ==
    \/ t.neg
    \/ /\ t.d[1] = 0
       /\ t.d[2] = 0
       /\ \/ t.d[3] < n \div NS_PER_S
          \/ t.d[3] = n \div NS_PER_S /\ t.d[4] < n % NS_PER_S

\* mtime * NS_PER_S: the digits move up by one place (the highest is 0 in every use)
TimesNS(t) == [t EXCEPT !.d = <<t.d[2], t.d[3], t.d[4], 0>>]

\* 2^64 - 1, the highest int Struct('<Q').pack takes
U64Max == <<0, 18, 446744073, 709551615>>

RECURSIVE DigitsLeq(_, _)
DigitsLeq(a, b) ==
    IF a = <<>> THEN TRUE
    ELSE IF Head(a) # Head(b) THEN Head(a) < Head(b)
    ELSE DigitsLeq(Tail(a), Tail(b))

\* UInt64(t) packs t: struct.error for a negative int and for one above 2^64 - 1
UInt64Packs(t) == ~t.neg /\ DigitsLeq(t.d, U64Max)

BasePkt ==
    [op |-> "", num |-> 0, entire |-> 40, this |-> 40, h |-> 0, whence |-> 0, off |-> 0,
     size |-> 0, path |-> "", mode |-> "", data |-> <<>>, sent |-> FALSE, mtime |-> NoTime,
     fault |-> "", reply |-> "", rnum |-> 0, length |-> 0, wire |-> 0,
     rop |-> "", rstatus |-> "", reqpath |-> ""]

\* The code points of a path.  "/u" stands for the two characters '/' and u-umlaut
\* (U+00FC); "/d/x" is an entry of the directory "/d".
CodePoints(path) ==
    CASE path = "" -> <<>>
      [] path = "/" -> <<47>>
      [] path = "/a" -> <<47, 97>>
      [] path = "/b" -> <<47, 98>>
      [] path = "/d" -> <<47, 100>>
      [] path = "/d/x" -> <<47, 100, 47, 120>>
      [] path = "/u" -> <<47, 252>>

\* len(path) of a str: its number of code points
StrLen(path) == Len(CodePoints(path))

\* len(chr(c).encode('utf-8'))
Utf8Width(c) == IF c < 128 THEN 1 ELSE IF c < 2048 THEN 2 ELSE IF c < 65536 THEN 3 ELSE 4

RECURSIVE Utf8Sum(_)
Utf8Sum(cps) == IF cps = <<>> THEN 0 ELSE Utf8Width(Head(cps)) + Utf8Sum(Tail(cps))

\* len(path.encode('utf-8'))
Utf8Len(path) == Utf8Sum(CodePoints(path))

\* The operations whose payload reaches _send_packet as a str, not as bytes
StrPayload(op) == op \in {"READ_DIR", "MAKE_DIR", "GET_FILE_INFO"}

\* The number of payload bytes that go to the channel: _send_packet encodes a str
WireLen(p) ==
    CASE p.op = "FILE_OPEN" -> 8 + Utf8Len(p.path) + 1
      [] p.op = "FILE_CLOSE" -> 8
      [] p.op = "FILE_TELL" -> 8
      [] p.op = "FILE_SEEK" -> 24
      [] p.op = "FILE_SET_SIZE" -> 16
      [] p.op = "SET_FILE_TIME" -> 8 + Utf8Len(p.path) + 1
      [] p.op = "REMOVE_PATH" -> Utf8Len(p.path) + 1
      [] p.op = "READ" -> 16
      [] p.op = "WRITE" -> 8 + BLen(p.data)
      [] OTHER -> Utf8Len(p.path)

\* len(data) of the payload handed to _send_packet
PayloadLen(p) == IF StrPayload(p.op) THEN StrLen(p.path) ELSE WireLen(p)

\* The device's replies.  rop is the operation of the reply packet ("STATUS" or
\* "DATA", which stands for every other one), rstatus the code a STATUS packet
\* carries, rlen the length of the reply's payload.
DevErr(w, st) ==
    [w EXCEPT !.rop = "STATUS", !.rstatus = st, !.rlen = 8, !.num = 0, !.bytes = <<>>,
              !.fmt = "", !.names = <<>>]

DevOk(w, files, dopen, num, bytes) ==
    [w EXCEPT !.files = files, !.dopen = dopen, !.rop = "DATA", !.rstatus = "",
              !.rlen = IF bytes = <<>> THEN 8 ELSE BLen(bytes),
              !.num = num, !.bytes = bytes, !.fmt = "", !.names = <<>>]

\* A STATUS packet with the success code, for the requests that return nothing
DevDone(w, files, dopen) ==
    [w EXCEPT !.files = files, !.dopen = dopen, !.rop = "STATUS", !.rstatus = "SUCCESS",
              !.rlen = 8, !.num = 0, !.bytes = <<>>, !.fmt = "", !.names = <<>>]

\* The paths the device can hold
DevPaths == Paths \cup {"/d", "/d/x", "/u"}

Parent(path) == IF path = "/d/x" THEN "/d" ELSE "/"

BaseName(path) ==
    CASE path = "/a" -> "a" [] path = "/b" -> "b" [] path = "/d" -> "d"
      [] path = "/d/x" -> "x" [] path = "/u" -> "u" [] OTHER -> ""

IsDir(w, path) == path = "/" \/ path \in w.dirs

Children(w, path) == {q \in (DOMAIN w.files) \cup w.dirs : Parent(q) = path}

RECURSIVE NameSeq(_)
NameSeq(qs) ==
    IF qs = {} THEN <<>>
    ELSE LET q == CHOOSE x \in qs : TRUE IN <<BaseName(q)>> \o NameSeq(qs \ {q})

\* What READ_DIR answers: the two implicit entries, then the directory's own
Listing(w, path) == <<".", "..">> \o NameSeq(Children(w, path))

\* The device's answers to the requests on directories
DeviceDir(w, p) ==
    CASE p.op = "READ_DIR" ->
            IF IsDir(w, p.path)
            THEN [DevOk(w, w.files, w.dopen, 0, <<>>) EXCEPT !.names = Listing(w, p.path)]
            ELSE DevErr(w, IF p.path \in DOMAIN w.files THEN "UNKNOWN_ERROR"
                           ELSE "OBJECT_NOT_FOUND")
      [] p.op = "MAKE_DIR" ->
            IF p.path \notin DevPaths \/ ~IsDir(w, Parent(p.path))
            THEN DevErr(w, "OBJECT_NOT_FOUND")
            ELSE IF p.path \in DOMAIN w.files THEN DevErr(w, "OBJECT_EXISTS")
            ELSE [DevDone(w, w.files, w.dopen) EXCEPT !.dirs = @ \cup {p.path}]
      [] p.op = "REMOVE_PATH" ->
            IF p.path \in w.dirs
            THEN IF Children(w, p.path) # {} THEN DevErr(w, "UNKNOWN_ERROR")
                 ELSE [DevDone(w, w.files, w.dopen) EXCEPT !.dirs = @ \ {p.path}]
            ELSE IF p.path \in DOMAIN w.files
            THEN DevDone(w, [q \in DOMAIN w.files \ {p.path} |-> w.files[q]], w.dopen)
            ELSE DevErr(w, "OBJECT_NOT_FOUND")
      [] p.op = "SET_FILE_TIME" ->
            IF IsDir(w, p.path) \/ p.path \in DOMAIN w.files
            THEN DevDone(w, w.files, w.dopen)
            ELSE DevErr(w, "OBJECT_NOT_FOUND")

DevSetPos(dopen, h, pos) == [dopen EXCEPT ![h].pos = pos]

\* The handle id the device hands out next: the lowest one not open
NextHandle(dopen) ==
    LET free == HandleIds \ DOMAIN dopen
    IN  CHOOSE h \in free : \A g \in free : h <= g

\* The device: what one request does to it and what it answers.
Device(w, p) ==
    LET known == p.h \in DOMAIN w.dopen
        e == w.dopen[p.h]
        c == w.files[e.path]
        newh == NextHandle(w.dopen)
    IN  CASE p.op = "FILE_OPEN" ->
                IF p.path \notin DevPaths \/ ~IsDir(w, Parent(p.path))
                THEN DevErr(w, "OBJECT_NOT_FOUND")
                ELSE IF p.path \in w.dirs THEN DevErr(w, "OBJECT_IS_DIR")
                ELSE IF p.mode = "RDONLY" /\ p.path \notin DOMAIN w.files
                THEN DevErr(w, "OBJECT_NOT_FOUND")
                ELSE IF HandleIds \subseteq DOMAIN w.dopen THEN DevErr(w, "NO_RESOURCES")
                ELSE DevOk(w,
                           IF p.mode = "WRONLY" \/ p.path \notin DOMAIN w.files
                           THEN (p.path :> <<>>) @@ w.files ELSE w.files,
                           (newh :> [path |-> p.path, pos |-> 0, mode |-> p.mode]) @@ w.dopen,
                           newh, <<>>)
          [] p.op = "FILE_CLOSE" ->
                IF ~known THEN DevErr(w, "INVALID_ARG")
                ELSE DevDone(w, w.files, [x \in DOMAIN w.dopen \ {p.h} |-> w.dopen[x]])
          [] p.op = "FILE_TELL" ->
                IF ~known THEN DevErr(w, "INVALID_ARG")
                ELSE DevOk(w, w.files, w.dopen, e.pos, <<>>)
          [] p.op = "FILE_SEEK" ->
                IF ~known \/ p.whence \notin {0, 1, 2} THEN DevErr(w, "INVALID_ARG")
                ELSE LET base == CASE p.whence = 0 -> 0
                                   [] p.whence = 1 -> e.pos
                                   [] p.whence = 2 -> BLen(c)
                     IN  DevDone(w, w.files, DevSetPos(w.dopen, p.h, base + p.off))
          [] p.op = "FILE_SET_SIZE" ->
                IF ~known \/ e.mode = "RDONLY" THEN DevErr(w, "INVALID_ARG")
                ELSE DevDone(w,
                             [w.files EXCEPT ![e.path] =
                                 IF p.size <= BLen(c) THEN Take(c, p.size)
                                 ELSE Cat(c, Zeros(p.size - BLen(c)))],
                             w.dopen)
          [] p.op = "GET_FILE_INFO" ->
                IF IsDir(w, p.path)
                THEN [DevOk(w, w.files, w.dopen, 0, <<>>) EXCEPT !.fmt = "S_IFDIR"]
                ELSE IF p.path \notin DOMAIN w.files THEN DevErr(w, "OBJECT_NOT_FOUND")
                ELSE [DevOk(w, w.files, w.dopen, BLen(w.files[p.path]), <<>>)
                         EXCEPT !.fmt = "S_IFREG"]
          [] p.op = "READ" ->
                IF ~known \/ e.mode = "WRONLY" THEN DevErr(w, "INVALID_ARG")
                ELSE LET out == Slice(c, e.pos, e.pos + p.size)
                     IN  DevOk(w, w.files, DevSetPos(w.dopen, p.h, e.pos + BLen(out)), 0, out)
          [] p.op = "WRITE" ->
                IF ~known \/ e.mode = "RDONLY" THEN DevErr(w, "INVALID_ARG")
                ELSE DevDone(w, [w.files EXCEPT ![e.path] = Overwrite(c, e.pos, p.data)],
                             DevSetPos(w.dopen, p.h, e.pos + BLen(p.data)))
          [] OTHER -> DeviceDir(w, p)

Raise(w, exc) == [w EXCEPT !.exc = exc]

Failed(w) == w.exc # ""

Returns(w, val) == [w EXCEPT !.val = val, !.names = <<>>, !.fmt = ""]

\* A call goes on with the world its step before left, unless that step raised.
\* The steps of an operation are operators of their own, each taking the world
\* the step before it returns.

\* _send_packet that does not count the packet
SendPacket_nocount(w, p, length) ==
    LET broken == w.sock # "open" \/ (w.n + 1 \in w.faults /\ w.fkind = "send")
    IN  [w EXCEPT !.n = @ + 1,
                  !.log = Append(@, [p EXCEPT !.entire = 40 + PayloadLen(p),
                                              !.this = IF length # 0 THEN length
                                                       ELSE 40 + PayloadLen(p),
                                              !.num = w.pn,
                                              !.length = length,
                                              !.wire = WireLen(p),
                                              !.fault = IF w.n + 1 \in w.faults
                                                        THEN w.fkind ELSE "",
                                              !.sent = (w.service = "open" /\ ~broken)]),
                  !.exc = IF w.service # "open" THEN "TypeError"
                          ELSE IF broken THEN "OSError" ELSE ""]

\* AFCClient._send_packet(operation, data, length); length = 0 stands for None
SendPacket(w, p, length) ==
    LET actual_len == 40 + PayloadLen(p)
        k == w.n + 1
        injected == IF k \in w.faults THEN w.fkind ELSE ""
        broken == w.sock # "open" \/ injected = "send"
        pkt == [p EXCEPT !.entire = actual_len,
                         !.length = length,
                         !.wire = WireLen(p),
                         !.fault = injected,
                         !.this = IF length # 0 THEN length ELSE actual_len,
                         !.num = w.pn,
                         !.sent = (w.service = "open" /\ ~broken)]
    IN  [w EXCEPT !.pn = @ + 1, !.n = k, !.log = Append(@, pkt),
                  !.exc = IF w.service # "open" THEN "TypeError"
                          ELSE IF broken THEN "OSError" ELSE ""]

\* The device's reply to the packet sent last, put on the channel: unread counts
\* the bytes of the channel the client has not read
Reply(w) ==
    IF w.n \in w.faults /\ w.fkind = "status" THEN DevErr(w, "UNKNOWN_ERROR")
    ELSE IF w.n \in w.faults /\ w.fkind = "notfound" THEN DevErr(w, "OBJECT_NOT_FOUND")
    ELSE Device(w, w.log[Len(w.log)])

Arrive(d) == [d EXCEPT !.unread = @ + 40 + d.rlen]

\* _get_response, the reply being on the channel: the header, then
\* entire_length - 40 bytes; the status is the payload of a STATUS packet
ReadReply(a) ==
    [a EXCEPT !.unread = @ - 40 - a.rlen,
              !.afc = IF a.rop = "STATUS" THEN a.rstatus ELSE "SUCCESS"]

\* _get_response when self._recv(40) hands back no header: the if is not entered,
\* status is AFC_E_SUCCESS and data is b''
NoHeader(w) ==
    [w EXCEPT !.afc = "SUCCESS", !.rop = "", !.rstatus = "", !.rlen = 0, !.num = 0,
              !.bytes = <<>>, !.fmt = "", !.names = <<>>]

\* AFCClient._get_response(): the reply to the packet sent last, or nothing when the
\* channel has ended (fkind "nohead")
GetResponse(w) ==
    IF w.n \in w.faults /\ w.fkind = "nohead" THEN NoHeader(w)
    ELSE ReadReply(Arrive(Reply(w)))

\* The reply and the path argument of request, noted with the packet they answer
Logged(g, path) ==
    [g EXCEPT !.log[Len(g.log)].reply = g.afc, !.log[Len(g.log)].rnum = g.num,
              !.log[Len(g.log)].rop = g.rop, !.log[Len(g.log)].rstatus = g.rstatus,
              !.log[Len(g.log)].reqpath = path]

\* iOSError.__init__: errno = AFC_TO_OS_ERROR_CODES.get(afc_errno) if errno is None
OsErrno(status) ==
    CASE status = "OBJECT_NOT_FOUND" -> "ENOENT"
      [] status = "OBJECT_IS_DIR" -> "ENOTDIR"
      [] OTHER -> "None"

\* The errno of an iFileNotFoundError
FileNotFoundErrno == "None"

\* request that raises the file-not-found error without looking at path
CheckStatus_anypath(r, path) ==
    IF r.afc # "SUCCESS"
    THEN IF r.afc = "OBJECT_NOT_FOUND"
         THEN [r EXCEPT !.exc = "iFileNotFoundError", !.errno = FileNotFoundErrno,
                        !.errStatus = r.afc, !.errOp = ""]
         ELSE [r EXCEPT !.exc = "iOSError", !.errno = OsErrno(r.afc),
                        !.errStatus = r.afc, !.errOp = r.log[Len(r.log)].op]
    ELSE r

\* AFCClient.request, from the status on: a non-success status raises
CheckStatus(r, path) ==
    IF r.afc # "SUCCESS"
    THEN IF r.afc = "OBJECT_NOT_FOUND" /\ path # ""
         THEN [r EXCEPT !.exc = "iFileNotFoundError", !.errno = FileNotFoundErrno,
                        !.errStatus = r.afc, !.errOp = ""]
         ELSE [r EXCEPT !.exc = "iOSError", !.errno = OsErrno(r.afc),
                        !.errStatus = r.afc, !.errOp = r.log[Len(r.log)].op]
    ELSE r

\* AFCClient.request, once the packet is sent
Respond(s, path) == IF Failed(s) THEN s ELSE CheckStatus(Logged(GetResponse(s), path), path)

\* AFCClient.request(operation, data, suffix, path, length)
Request(w, p, path, length) == Respond(SendPacket(w, p, length), path)

----------------------------------------------------------------------------
(* The client's operations, each a function from the world before the call *)
(* to the world after it.  val is the value returned, out the bytes        *)
(* returned; an optional argument is <<>> for None and <<v>> for v.        *)

\* return unpack('<Q', data)[0]
ReturnNum(r) == IF Failed(r) THEN r ELSE Returns(r, r.num)

ReturnVal(r, val) == IF Failed(r) THEN r ELSE Returns(r, val)

OpenPkt(path, mode) == [BasePkt EXCEPT !.op = "FILE_OPEN", !.path = path, !.mode = mode]

ClosePkt(handle) == [BasePkt EXCEPT !.op = "FILE_CLOSE", !.h = handle]

SeekPkt(handle, whence, offset) ==
    [BasePkt EXCEPT !.op = "FILE_SEEK", !.h = handle, !.whence = whence, !.off = offset]

\* file_open that returns the handle and does not record it
file_open_norecord(w, path, mode) == ReturnNum(Request(w, OpenPkt(path, mode), path, 0))

\* file_open, once the reply is there: self._handles[handle] = path
file_open_record(r, path) ==
    IF Failed(r) THEN r ELSE Returns([r EXCEPT !.handles = TablePut(@, r.num, path)], r.num)

\* AFCClient.file_open(path, mode)
file_open(w, path, mode) == file_open_record(Request(w, OpenPkt(path, mode), path, 0), path)

\* AFCClient._handle_path(handle) raises: the handle is not in the table
handle_path_fails(w, handle) == ~HasHandle(w.handles, handle)

\* file_close that removes the entry once the request went through
file_close_popped(r, handle) ==
    IF Failed(r) THEN r ELSE [r EXCEPT !.handles = TablePop(@, handle)]

file_close_late(w, handle) == file_close_popped(Request(w, ClosePkt(handle), "", 0), handle)

\* AFCClient.file_close(handle)
file_close(w, handle) ==
    Request([w EXCEPT !.handles = TablePop(@, handle)], ClosePkt(handle), "", 0)

\* AFCClient.file_tell(handle)
file_tell(w, handle) ==
    ReturnNum(Request(w, [BasePkt EXCEPT !.op = "FILE_TELL", !.h = handle], "", 0))

\* get_stat_dict, once the reply is there: _as_dict(data), of which the model
\* keeps st_size (val) and st_ifmt (fmt)
stat_dict(r) == IF Failed(r) THEN r ELSE [r EXCEPT !.val = r.num]

\* AFCClient.get_stat_dict(path)
get_stat_dict(w, path) ==
    stat_dict(Request(w, [BasePkt EXCEPT !.op = "GET_FILE_INFO", !.path = path], path, 0))

\* AFCClient._get_size(path)
get_size(w, path) == get_stat_dict(w, path)

\* listdir, once the reply is there: the names of the reply, the empty ones dropped
listdir_names(r) ==
    IF Failed(r) THEN r ELSE [r EXCEPT !.names = SelectSeq(r.names, LAMBDA x : x # "")]

\* AFCClient.listdir(path)
listdir(w, path) ==
    listdir_names(Request(w, [BasePkt EXCEPT !.op = "READ_DIR", !.path = path], path, 0))

\* AFCClient.make_directory(path)
make_directory(w, path) ==
    Request(w, [BasePkt EXCEPT !.op = "MAKE_DIR", !.path = path], path, 0)

\* The exceptions `except iOSError` catches
IOSErrors == {"iOSError", "iFileNotFoundError"}

\* The exception a world carries, and a world without it
ErrOf(w) == [exc |-> w.exc, errno |-> w.errno, errStatus |-> w.errStatus, errOp |-> w.errOp]

Caught(w) == [w EXCEPT !.exc = "", !.errno = "None", !.errStatus = "", !.errOp = ""]

Reraise(w, e) ==
    [w EXCEPT !.exc = e.exc, !.errno = e.errno, !.errStatus = e.errStatus, !.errOp = e.errOp]

\* _is_dir, once get_stat_dict has ended: an iOSError makes it False
is_dir_stat(st) ==
    IF st.exc \in IOSErrors THEN [Caught(st) EXCEPT !.flag = FALSE]
    ELSE IF Failed(st) THEN st
    ELSE [st EXCEPT !.flag = (st.fmt = "S_IFDIR")]

\* AFCClient._is_dir(path)
is_dir(w, path) == is_dir_stat(get_stat_dict(w, path))

\* _is_empty, once listdir has returned
is_empty_listed(l) ==
    IF Failed(l) THEN l
    ELSE [l EXCEPT !.flag = /\ Len(l.names) = 2
                             /\ \E i \in DOMAIN l.names : l.names[i] = "."
                             /\ \E j \in DOMAIN l.names : l.names[j] = ".."]

\* AFCClient._is_empty(path)
is_empty(w, path) == is_empty_listed(listdir(w, path))

RemovePkt(path) == [BasePkt EXCEPT !.op = "REMOVE_PATH", !.path = path]

\* remove that raises what request raised
remove_raw(w, path) == Request(w, RemovePkt(path), path, 0)

\* remove, in the handler, once _is_empty has ended: e is the exception caught
remove_emptied(m, e) ==
    IF Failed(m) THEN m
    ELSE IF ~m.flag THEN Reraise(m, [e EXCEPT !.errno = "ENOTEMPTY"])
    ELSE Reraise(m, e)

\* remove, in the handler, once _is_dir has ended
remove_dir_checked(d, path, e) ==
    IF Failed(d) THEN d
    ELSE IF d.flag THEN remove_emptied(is_empty(d, path), e)
    ELSE Reraise(d, e)

\* remove, once the request has ended: except iOSError as e
remove_requested(r, path) ==
    IF r.exc \in IOSErrors /\ r.errno = "None"
    THEN remove_dir_checked(is_dir(Caught(r), path), path, ErrOf(r))
    ELSE r

\* AFCClient.remove(path)
remove(w, path) == remove_requested(Request(w, RemovePkt(path), path, 0), path)

\* The last two lines of file_seek: pack('<QQQ', handle, 0, absolute), request, return
seek_request(w, handle, absolute, path) ==
    IF absolute < 0 THEN Raise(w, "struct.error")
    ELSE ReturnVal(Request(w, SeekPkt(handle, 0, absolute), path, 0), absolute)

\* file_seek that hands offset and whence to the device as they are
file_seek_raw(w, handle, offset, whence) ==
    IF offset < 0 THEN Raise(w, "struct.error")
    ELSE ReturnVal(Request(w, SeekPkt(handle, whence, offset), "", 0), offset)

\* file_seek that resolves the offset and does not validate it
seek_cur_unchecked(t, handle, offset) ==
    IF Failed(t) THEN t
    ELSE IF handle_path_fails(t, handle) THEN Raise(t, "iOSError")
    ELSE seek_request(get_size(t, PathOf(t.handles, handle)), handle, t.val + offset,
                      PathOf(t.handles, handle))

seek_end_unchecked(sz, handle, offset, path) ==
    IF Failed(sz) THEN sz ELSE seek_request(sz, handle, sz.val + offset, path)

file_seek_unchecked(w, handle, offset, whence) ==
    CASE whence = 0 -> seek_request(w, handle, offset, "")
      [] whence = 1 -> seek_cur_unchecked(file_tell(w, handle), handle, offset)
      [] OTHER ->
            IF handle_path_fails(w, handle) THEN Raise(w, "iOSError")
            ELSE seek_end_unchecked(get_size(w, PathOf(w.handles, handle)), handle, offset,
                                    PathOf(w.handles, handle))

\* file_seek, whence 1, once the size is there
seek_cur_sized(sz, handle, absolute, path) ==
    IF Failed(sz) THEN sz
    ELSE IF absolute < 0 \/ absolute > sz.val THEN Raise(sz, "iOSError")
    ELSE seek_request(sz, handle, absolute, path)

\* file_seek, whence 1, once file_tell has returned
seek_cur_told(t, handle, offset) ==
    IF Failed(t) THEN t
    ELSE IF handle_path_fails(t, handle) THEN Raise(t, "iOSError")
    ELSE seek_cur_sized(get_size(t, PathOf(t.handles, handle)), handle, t.val + offset,
                        PathOf(t.handles, handle))

\* file_seek, whence 2, once the size is there
seek_end_sized(sz, handle, offset, path) ==
    IF Failed(sz) THEN sz ELSE seek_request(sz, handle, sz.val + offset, path)

\* AFCClient.file_seek(handle, offset, whence)
file_seek(w, handle, offset, whence) ==
    CASE whence = 0 -> seek_request(w, handle, offset, "")
      [] whence = 1 -> seek_cur_told(file_tell(w, handle), handle, offset)
      [] whence = 2 ->
            IF offset > 0 THEN Raise(w, "iOSError")
            ELSE IF handle_path_fails(w, handle) THEN Raise(w, "iOSError")
            ELSE seek_end_sized(get_size(w, PathOf(w.handles, handle)), handle, offset,
                                PathOf(w.handles, handle))
      [] OTHER -> Raise(w, "iOSError")

\* file_truncate, once the size is settled (t.val)
truncate_sized(t, handle) ==
    IF Failed(t) THEN t
    ELSE IF t.val < 0 THEN Raise(t, "struct.error")
    ELSE ReturnNum(Request(t, [BasePkt EXCEPT !.op = "FILE_SET_SIZE", !.h = handle,
                                              !.size = t.val], "", 0))

\* AFCClient.file_truncate(handle, size)
file_truncate(w, handle, size) ==
    truncate_sized(IF size = <<>> THEN file_tell(w, handle) ELSE Returns(w, size[1]), handle)

\* file_set_mtime that scales a time of MTIME_LIMIT too
mtime_scaled_inclusive(mtime) ==
    IF TimeBelow(mtime, MTIME_LIMIT) \/ mtime = [neg |-> FALSE, d |-> <<0, 0, 2, 0>>]
    THEN TimesNS(mtime) ELSE mtime

\* if mtime < 2_000_000_000: mtime *= 1_000_000_000
mtime_scaled(mtime) == IF TimeBelow(mtime, MTIME_LIMIT) THEN TimesNS(mtime) ELSE mtime

\* self.request(AFC_OP_SET_FILE_TIME, UInt64(mtime) + path.encode('utf-8') + b'\x00', ...)
set_mtime_request(w, path, mtime) ==
    IF ~UInt64Packs(mtime) THEN Raise(w, "struct.error")
    ELSE Request(w, [BasePkt EXCEPT !.op = "SET_FILE_TIME", !.path = path,
                                    !.mtime = mtime], "", 0)

\* AFCClient.file_set_mtime(path, mtime)
file_set_mtime(w, path, mtime) == set_mtime_request(w, path, mtime_scaled(mtime))

\* A chunk that is all that is left to read
ReadChunk_whole(size) == size

\* chunk_size = MAXIMUM_READ_SIZE if size > MAXIMUM_READ_SIZE else size
ReadChunk(size) == IF size > MAXIMUM_READ_SIZE THEN MAXIMUM_READ_SIZE ELSE size

RECURSIVE read_loop(_, _, _, _, _, _)
\* The loop of AFCClient.read, once a chunk's reply is there:
\* view[pos:next_pos] = response
read_store(r, path, handle, size, pos, data) ==
    IF Failed(r) THEN r
    ELSE IF BLen(r.bytes) # ReadChunk(size) THEN Raise(r, "ValueError")
    ELSE read_loop(r, path, handle, size - ReadChunk(size), pos + ReadChunk(size),
                   Cat(Cat(Take(data, pos), r.bytes), Drop(data, pos + ReadChunk(size))))

\* The loop of AFCClient.read: data is the buffer
read_loop(w, path, handle, size, pos, data) ==
    IF ~(size > 0) THEN [w EXCEPT !.out = data, !.val = 0]
    ELSE read_store(Request(w, [BasePkt EXCEPT !.op = "READ", !.h = handle,
                                               !.size = ReadChunk(size)], path, 0),
                    path, handle, size, pos, data)

\* AFCClient.read from data = bytearray(size) on
read_buffer(t, path, handle, size) ==
    IF size < 0 THEN Raise(t, "ValueError")
    ELSE read_loop(t, path, handle, size, 0, Zeros(size))

\* AFCClient.read, once file_tell has returned: remaining, and the size to read
read_told(t, path, handle, size, st_size) ==
    IF Failed(t) THEN t
    ELSE read_buffer(t, path, handle,
                     IF st_size - t.val < size \/ size < 0 THEN st_size - t.val ELSE size)

\* AFCClient.read, once _get_size has returned
read_sized(sz, path, handle, size) ==
    IF Failed(sz) THEN sz ELSE read_told(file_tell(sz, handle), path, handle, size, sz.val)

\* AFCClient.read(path, handle, size), after path and handle are settled
read_body(w, path, handle, size) == read_sized(get_size(w, path), path, handle, size)

\* AFCClient.read with no handle, once file_open has returned
read_opened(o, path, size) ==
    IF Failed(o) THEN o ELSE read_body([o EXCEPT !.opened = <<o.val>>], path, o.val, size)

\* AFCClient.read(path, handle, size)
read(w, path, handle, size) ==
    IF handle # <<>> /\ handle[1] # 0 /\ path = ""
    THEN IF handle_path_fails(w, handle[1]) THEN Raise(w, "iOSError")
         ELSE read_body(w, PathOf(w.handles, handle[1]), handle[1], size)
    ELSE IF handle = <<>>
    THEN read_opened(file_open(w, path, "RDONLY"), path, size)
    ELSE read_body(w, path, handle[1], size)

\* A chunk that is all that remains
WriteChunk_whole(remaining) == remaining

\* chunk_size = remaining if remaining < MAXIMUM_WRITE_SIZE else MAXIMUM_WRITE_SIZE
WriteChunk(remaining) ==
    IF remaining < MAXIMUM_WRITE_SIZE THEN remaining ELSE MAXIMUM_WRITE_SIZE

RECURSIVE write_loop(_, _, _, _, _, _)
\* The loop of AFCClient.write, once a chunk's reply is there
write_next(r, path, handle, data, pos, remaining) ==
    IF Failed(r) THEN r
    ELSE write_loop(r, path, handle, data, pos + WriteChunk(remaining),
                    remaining - WriteChunk(remaining))

\* The loop of AFCClient.write
write_loop(w, path, handle, data, pos, remaining) ==
    IF ~(remaining > 0) THEN Returns(w, BLen(data))
    ELSE write_next(Request(w, [BasePkt EXCEPT !.op = "WRITE", !.h = handle,
                                   !.data = Slice(data, pos, pos + WriteChunk(remaining))],
                            path, 48),
                    path, handle, data, pos, remaining)

\* write that sends the first chunk only
write_first_opened(o, path, data) ==
    IF Failed(o) THEN o
    ELSE ReturnVal(write_loop([o EXCEPT !.opened = <<o.val>>], path, o.val,
                              Take(data, MAXIMUM_WRITE_SIZE), 0,
                              BLen(Take(data, MAXIMUM_WRITE_SIZE))), BLen(data))

write_first_chunk(w, path, data, handle) ==
    IF handle = <<>>
    THEN write_first_opened(file_open(w, path, "WRONLY"), path, data)
    ELSE ReturnVal(write_loop(w, path, handle[1], Take(data, MAXIMUM_WRITE_SIZE), 0,
                              BLen(Take(data, MAXIMUM_WRITE_SIZE))), BLen(data))

\* AFCClient.write with no handle, once file_open has returned
write_opened(o, path, data) ==
    IF Failed(o) THEN o
    ELSE write_loop([o EXCEPT !.opened = <<o.val>>], path, o.val, data, 0, BLen(data))

\* AFCClient.write(path, data, handle)
write(w, path, data, handle) ==
    IF handle = <<>>
    THEN write_opened(file_open(w, path, "WRONLY"), path, data)
    ELSE write_loop(w, path, handle[1], data, 0, BLen(data))

\* The loop of __close without its try/except: the first failing close ends it
RECURSIVE close_handles_abort(_, _)
close_abort_next(r, items) == IF Failed(r) THEN r ELSE close_handles_abort(r, Tail(items))

close_handles_abort(w, items) ==
    IF items = <<>> THEN w ELSE close_abort_next(file_close(w, Head(items).h), items)

\* __close from self._service.close() on
close_service(c) ==
    [c EXCEPT !.sockCloses = @ + 1,
              !.sock = IF c.chanfails THEN @ ELSE "closed",
              !.caught = IF c.chanfails THEN @ + 1 ELSE @,
              !.service = "none"]

close_abort_service(c) == IF Failed(c) THEN c ELSE close_service(c)

\* __close that lets the failure of a close out
close_body_abort(w) ==
    IF w.service # "none" THEN close_abort_service(close_handles_abort(w, w.handles)) ELSE w

RECURSIVE close_handles(_, _)
\* The loop of __close, once a file_close has ended: its exception is caught and logged
close_caught(r, items) ==
    close_handles([r EXCEPT !.exc = "", !.errno = "None", !.errStatus = "", !.errOp = "",
                            !.caught = IF Failed(r) THEN @ + 1 ELSE @],
                  Tail(items))

\* The loop of AFCClient.__close over list(self._handles.items())
close_handles(w, items) ==
    IF items = <<>> THEN w ELSE close_caught(file_close(w, Head(items).h), items)

\* AFCClient.__close(), run with the lock held
close_body(w) ==
    IF w.service # "none" THEN close_service(close_handles(w, w.handles)) ELSE w

\* detach that lets every caller through
detach_always(a) == TRUE

\* finalize.detach() and finalize.__call__(): true for the one caller that
\* finds the finalizer alive, which is dead from then on
detach(a) == a

----------------------------------------------------------------------------
(* _as_dict.  Data is a sequence of characters, 0 for NUL; a str is the     *)
(* sequence of its characters; a dict is a function from str to str.       *)

\* The characters of the data: NUL and two others
Chars == {0, 1, 2}

\* data.decode('utf-8').split('\x00')
RECURSIVE Split(_, _)
Split(data, cur) ==
    IF data = <<>> THEN <<cur>>
    ELSE IF Head(data) = 0 THEN <<cur>> \o Split(Tail(data), <<>>)
    ELSE Split(Tail(data), Append(cur, Head(data)))

\* d[k] = v
DictPut(d, k, v) == [x \in DOMAIN d \cup {k} |-> IF x = k THEN v ELSE d[x]]

\* dict(zip(iparts, iparts)): the parts two by two, a part left alone dropped
RECURSIVE ZipDict(_, _)
ZipDict(parts, d) ==
    IF Len(parts) < 2 THEN d
    ELSE ZipDict(SubSeq(parts, 3, Len(parts)), DictPut(d, parts[1], parts[2]))

\* [:-1]
DropLast(parts) == SubSeq(parts, 1, Len(parts) - 1)

\* _as_dict without its assert
as_dict_noassert(data) ==
    [status |-> "dict", value |-> ZipDict(DropLast(Split(data, <<>>)), <<>>)]

\* _as_dict(data)
as_dict(data) ==
    IF Len(DropLast(Split(data, <<>>))) % 2 # 0
    THEN [status |-> "AssertionError", value |-> <<>>]
    ELSE [status |-> "dict", value |-> ZipDict(DropLast(Split(data, <<>>)), <<>>)]

----------------------------------------------------------------------------
(* The state: the device, one AFCClient on a service channel, and the      *)
(* callers that shut the client down.                                      *)

VARIABLES
    files,       \* device: path -> content, for the files that exist
    dopen,       \* device: handle id -> [path, pos, mode], for its open handles
    handles,     \* AFCClient._handles
    packet_num,  \* AFCClient._packet_num
    service,     \* AFCClient._service: "open", or "none" once __close has run
    sock,        \* the service channel's socket: "open" or "closed"
    sockCloses,  \* how many times _service.close() was called
    alive,       \* the weakref.finalize object of the client is alive
    closeRuns,   \* how many times __close was entered
    pc,          \* per shutdown caller: "idle", or "closing" once detach has let it through
    ret,         \* the call that has just ended: its arguments and its outcome
    sentLog,     \* the packets that call handed to _send_packet, in order
    issued,      \* handle id -> path: what successful FILE_OPEN replies handed out,
                 \* minus what a FILE_CLOSE was requested for since
    wasClosed,   \* the handle ids passed to file_close and not handed out again since
    lastWrite,   \* the write(path, data) with no handle that succeeded last, if no
                 \* other call was made since: <<[path, data]>>, else <<>>
    calls,       \* how many calls were made
    dirs,        \* device: the directories that exist, besides "/"
    unread,      \* channel: the bytes the device sent that the client has not read
    fobj,        \* an iPodIOBase of the client: its handle _f (<<>> for None), the
                 \* handle it was opened with (h0) and whether its finalizer is alive
    dictIn,      \* the data given to _as_dict: a sequence of characters, 0 for NUL
    dictOut,     \* what _as_dict made of it: [status, value]
    thr,         \* per thread sharing the client: its position (pc), the handle it
                 \* opened (h, path), the table it loaded (tmp), what _handle_path
                 \* gave it (seen) and the opens it made (n)
    lock,        \* AFCClient._lock: the thread that holds it, or "none"
    shut,        \* the handle ids __close took out of the table
    pkttag,      \* MuxConnection.pkttag
    connected,   \* MuxConnection.proto.connected
    proto,       \* the class of MuxConnection.proto: "binary" or "plist"
    muxRet,      \* the last call on the mux connection: its name, tag, the reply it
                 \* read, its exception and its value
    devices,     \* MuxConnection.devices: a list of [devid, serial]
    muxSock,     \* MuxConnection.socket.sock: "open" or "closed"
    usbmux,      \* the USBMux object: whether __init__ returned it, its version, and
                 \* the protocols a Listen was written in
    ld,          \* the LockdownClient: whether __init__ returned it, and its fields
    ldRet,       \* the last call on the LockdownClient: its name, the requests it
                 \* sent, its exception and value, and what it was given
    cache,       \* the pairing record in the local cache directory: "none", "cache"
                 \* (of an earlier run) or "new" (written by pair)
    lastNum      \* the packet_num field of the packet handed to the channel last, -1
                 \* before the first

vars == <<files, dopen, handles, packet_num, service, sock, sockCloses, alive, closeRuns,
          pc, ret, sentLog, issued, wasClosed, lastWrite, calls, lastNum, dirs, unread,
          fobj, dictIn, dictOut, thr, lock, shut, pkttag, connected, proto, muxRet,
          devices, muxSock, usbmux, ld, ldRet, cache>>

\* The variables of the LockdownClient
lockVars == <<ld, ldRet, cache>>

\* The variables of the mux connection
muxVars == <<pkttag, connected, proto, muxRet, devices, muxSock, usbmux>>

\* The variables of the threads that share the client
threadVars == <<thr, lock, shut>>

\* The variables of the module-level functions
pureVars == <<dictIn, dictOut>>

\* The file object
fileVars == <<fobj>>

NoFile == [state |-> "none", f |-> <<>>, h0 |-> 0, alive |-> FALSE]

\* The variables of the client, its channel and the device
clientVars == <<files, dopen, handles, packet_num, service, sock, sockCloses, alive,
                closeRuns, pc, ret, sentLog, issued, wasClosed, lastWrite, calls, lastNum,
                dirs, unread, fobj>>

\* close(): explicit calls from two threads; del: __del__; final: the finalizer firing
Closers == {"close1", "close2", "del", "final"}

Whences == {0, 1, 2, 3}

OptHandles == {<<>>} \cup {<<h>> : h \in HandleIds}

\* The length of the content "/a" has on the device at the start
InitLen == 70000

NoFaults == {[faults |-> {}, fkind |-> "status"]}

\* One of the requests numbered in idx fails: it is answered with a non-success
\* status, or the socket does not take it
OneFault(idx) == {[faults |-> {i}, fkind |-> kd] : i \in idx, kd \in {"status", "send"}}

World(plan, chanfails) ==
    [files |-> files, dopen |-> dopen, handles |-> handles, pn |-> packet_num,
     service |-> service, sock |-> sock, sockCloses |-> sockCloses,
     log |-> <<>>, n |-> 0, faults |-> plan.faults, fkind |-> plan.fkind,
     chanfails |-> chanfails, exc |-> "", afc |-> "SUCCESS", num |-> 0, bytes |-> <<>>,
     val |-> 0, out |-> <<>>, opened |-> <<>>, caught |-> 0,
     dirs |-> dirs, unread |-> unread, rop |-> "", rstatus |-> "", rlen |-> 0,
     fmt |-> "", names |-> <<>>, flag |-> FALSE,
     errno |-> "None", errStatus |-> "", errOp |-> ""]

NoArgs == [path |-> "", h |-> <<>>, off |-> 0, whence |-> 0, size |-> <<>>, data |-> <<>>,
           mtime |-> NoTime]

Idle == [op |-> "idle", by |-> "", args |-> NoArgs, exc |-> "", val |-> 0, out |-> <<>>,
         opened |-> <<>>, caught |-> 0, errno |-> "None", errStatus |-> "", errOp |-> "",
         names |-> <<>>, fmt |-> ""]

\* What the packets of a log hand out and take back, in order
RECURSIVE Issue(_, _)
Issue(tbl, log) ==
    IF log = <<>> THEN tbl
    ELSE LET p == Head(log)
         IN  Issue(CASE p.op = "FILE_OPEN" /\ p.reply = "SUCCESS" -> (p.rnum :> p.path) @@ tbl
                     [] p.op = "FILE_CLOSE" -> [h \in DOMAIN tbl \ {p.h} |-> tbl[h]]
                     [] OTHER -> tbl,
                   Tail(log))

\* The handle ids a log's successful FILE_OPEN replies hand out
OpenedIn(log) ==
    {log[i].rnum : i \in {j \in DOMAIN log : log[j].op = "FILE_OPEN" /\ log[j].reply = "SUCCESS"}}

\* The handle ids a log requests a FILE_CLOSE for
ClosedIn(log) == {log[i].h : i \in {j \in DOMAIN log : log[j].op = "FILE_CLOSE"}}

\* The client, the channel and the device after a call by caller `by` that took the
\* world to w
CommitClient(op, by, args, w) ==
    /\ files' = w.files
    /\ dopen' = w.dopen
    /\ handles' = w.handles
    /\ packet_num' = w.pn
    /\ service' = w.service
    /\ sock' = w.sock
    /\ sockCloses' = w.sockCloses
    /\ ret' = [op |-> op, by |-> by, args |-> args, exc |-> w.exc,
               val |-> IF Failed(w) THEN 0 ELSE w.val,
               out |-> IF Failed(w) THEN <<>> ELSE w.out,
               opened |-> w.opened, caught |-> w.caught,
               errno |-> IF Failed(w) THEN w.errno ELSE "None",
               errStatus |-> IF Failed(w) THEN w.errStatus ELSE "",
               errOp |-> IF Failed(w) THEN w.errOp ELSE "",
               names |-> IF Failed(w) THEN <<>> ELSE w.names,
               fmt |-> IF Failed(w) THEN "" ELSE w.fmt]
    /\ dirs' = w.dirs
    /\ unread' = w.unread
    /\ UNCHANGED <<pureVars, muxVars, threadVars, lockVars>>
    /\ sentLog' = w.log
    /\ issued' = Issue(issued, w.log)
    /\ wasClosed' = (wasClosed \ OpenedIn(w.log)) \cup ClosedIn(w.log)
    /\ lastWrite' = IF op = "write" /\ args.h = <<>> /\ w.exc = ""
                    THEN <<[path |-> args.path, data |-> args.data]>>
                    ELSE IF op = "read" THEN lastWrite ELSE <<>>
    /\ lastNum' = IF w.log = <<>> THEN lastNum ELSE w.log[Len(w.log)].num

\* The state after a call of the client that no file object takes part in
Commit(op, by, args, w) == CommitClient(op, by, args, w) /\ UNCHANGED fileVars

ClientInit ==
    /\ files = ("/a" :> <<Seg("i", 0, InitLen)>>)
    /\ dopen = <<>>
    /\ handles = <<>>
    /\ packet_num = 0
    /\ service = "open"
    /\ sock = "open"
    /\ sockCloses = 0
    /\ alive = TRUE
    /\ closeRuns = 0
    /\ pc = [c \in Closers |-> "idle"]
    /\ ret = Idle
    /\ sentLog = <<>>
    /\ issued = <<>>
    /\ wasClosed = {}
    /\ lastWrite = <<>>
    /\ calls = 0
    /\ lastNum = -1
    /\ dirs = {}
    /\ unread = 0
    /\ fobj = NoFile

NoDict == [status |-> "none", value |-> <<>>]

Threads == {"t1", "t2"}

ThreadIdle == [pc |-> "idle", h |-> 0, path |-> "", tmp |-> <<>>, seen |-> "", n |-> 0]

ThreadInit ==
    /\ thr = [t \in Threads |-> ThreadIdle]
    /\ lock = "none"
    /\ shut = {}

NoReply == [version |-> -1, wtype |-> -1, mtype |-> "", tag |-> -1, number |-> -1,
            record |-> "none", devid |-> 0, serial |-> ""]

\* serial=None
NoSerial == [kind |-> "none", s |-> ""]

NoFind == [serial |-> NoSerial, max |-> 0]

\* No MuxDevice
NoDevice == [devid |-> 0, serial |-> NoSerial]

MuxIdle == [op |-> "none", mytag |-> 0, read |-> FALSE, reply |-> NoReply, exc |-> "none",
            val |-> "none", sent |-> FALSE, calls |-> 0, wasted |-> FALSE, arg |-> NoFind,
            before |-> <<>>, dev |-> NoDevice]

\* No USBMux object
NoMux == [state |-> "none", version |-> -1, listens |-> <<>>, first |-> "none"]

\* MuxConnection.__init__ with BinaryProtocol
MuxInit ==
    /\ pkttag = 1
    /\ connected = FALSE
    /\ proto = "binary"
    /\ muxRet = MuxIdle
    /\ devices = <<>>
    /\ muxSock = "open"
    /\ usbmux = NoMux

\* No LockdownClient
NoClient ==
    [state |-> "none", svc |-> "none", svcs |-> 0, paired |-> FALSE, record |-> "none",
     session_id |-> "none", sslfile |-> FALSE, ssl |-> FALSE, channels |-> 0,
     sess |-> "unasked"]

NoEnv == [sys |-> FALSE, ios |-> 0, daemon |-> "none"]

NoVp == [src |-> "none", ret |-> "None", exc |-> "none", sent |-> <<>>]

NoPair == [ans |-> "unasked", exc |-> "none", closed |-> FALSE, persisted |-> FALSE,
           ret |-> "None"]

LdIdle ==
    [op |-> "none", exc |-> "none", val |-> "none", sent |-> <<>>, env |-> NoEnv,
     cache0 |-> "none", vp1 |-> NoVp, pairOut |-> NoPair, pubkey |-> "unasked",
     sid0 |-> "none", paired0 |-> FALSE, channels0 |-> 0, answer |-> "none",
     events |-> <<>>]

LockInit ==
    /\ ld = NoClient
    /\ ldRet = LdIdle
    /\ cache = "none"

Init ==
    /\ ClientInit
    /\ ThreadInit
    /\ LockInit
    /\ MuxInit
    /\ dictIn = <<>>
    /\ dictOut = NoDict

\* A caller makes a call when the one before has returned
CanCall == ret.op = "idle" /\ calls < MaxCalls

\* The call's outcome is with the caller
Return ==
    /\ ret.op # "idle"
    /\ ret' = Idle
    /\ sentLog' = <<>>
    /\ lastWrite' = IF ret.op = "read" THEN <<>> ELSE lastWrite
    /\ UNCHANGED <<files, dopen, handles, packet_num, service, sock, sockCloses, alive,
                   closeRuns, pc, issued, wasClosed, calls, lastNum, dirs, unread, pureVars, fileVars, muxVars, threadVars, lockVars>>

FileOpen(paths, modes, plans) ==
    /\ CanCall
    /\ \E path \in paths, mode \in modes, plan \in plans :
          Commit("file_open", "", [NoArgs EXCEPT !.path = path],
                 file_open(World(plan, FALSE), path, mode))
    /\ calls' = calls + 1
    /\ UNCHANGED <<alive, closeRuns, pc>>

FileClose(plans) ==
    /\ CanCall
    /\ \E h \in HandleIds, plan \in plans :
          Commit("file_close", "", [NoArgs EXCEPT !.h = <<h>>],
                 file_close(World(plan, FALSE), h))
    /\ calls' = calls + 1
    /\ UNCHANGED <<alive, closeRuns, pc>>

FileTell ==
    /\ CanCall
    /\ \E h \in HandleIds :
          Commit("file_tell", "", [NoArgs EXCEPT !.h = <<h>>],
                 file_tell(World([faults |-> {}, fkind |-> "status"], FALSE), h))
    /\ calls' = calls + 1
    /\ UNCHANGED <<alive, closeRuns, pc>>

FileSeek(offsets, whences, plans) ==
    /\ CanCall
    /\ \E h \in HandleIds, offset \in offsets, whence \in whences, plan \in plans :
          Commit("file_seek", "", [NoArgs EXCEPT !.h = <<h>>, !.off = offset, !.whence = whence],
                 file_seek(World(plan, FALSE), h, offset, whence))
    /\ calls' = calls + 1
    /\ UNCHANGED <<alive, closeRuns, pc>>

FileSetMtime(paths, times) ==
    /\ CanCall
    /\ \E path \in paths, mtime \in times :
          Commit("file_set_mtime", "", [NoArgs EXCEPT !.path = path, !.mtime = mtime],
                 file_set_mtime(World([faults |-> {}, fkind |-> "status"], FALSE),
                                path, mtime))
    /\ calls' = calls + 1
    /\ UNCHANGED <<alive, closeRuns, pc>>

FileTruncate(sizes) ==
    /\ CanCall
    /\ \E h \in HandleIds, size \in sizes :
          Commit("file_truncate", "", [NoArgs EXCEPT !.h = <<h>>, !.size = size],
                 file_truncate(World([faults |-> {}, fkind |-> "status"], FALSE), h, size))
    /\ calls' = calls + 1
    /\ UNCHANGED <<alive, closeRuns, pc>>

Read(paths, hs, sizes, plans) ==
    /\ CanCall
    /\ \E path \in paths, h \in hs, size \in sizes, plan \in plans :
          Commit("read", "", [NoArgs EXCEPT !.path = path, !.h = h, !.size = <<size>>],
                 read(World(plan, FALSE), path, h, size))
    /\ calls' = calls + 1
    /\ UNCHANGED <<alive, closeRuns, pc>>

Write(paths, lens, hs, plans) ==
    /\ CanCall
    /\ \E path \in paths, n \in lens, h \in hs, plan \in plans :
          Commit("write", "", [NoArgs EXCEPT !.path = path, !.h = h, !.data = Data(n)],
                 write(World(plan, FALSE), path, Data(n), h))
    /\ calls' = calls + 1
    /\ UNCHANGED <<alive, closeRuns, pc>>

ListDir(paths, plans) ==
    /\ CanCall
    /\ \E path \in paths, plan \in plans :
          Commit("listdir", "", [NoArgs EXCEPT !.path = path],
                 listdir(World(plan, FALSE), path))
    /\ calls' = calls + 1
    /\ UNCHANGED <<alive, closeRuns, pc>>

MakeDirectory(paths, plans) ==
    /\ CanCall
    /\ \E path \in paths, plan \in plans :
          Commit("make_directory", "", [NoArgs EXCEPT !.path = path],
                 make_directory(World(plan, FALSE), path))
    /\ calls' = calls + 1
    /\ UNCHANGED <<alive, closeRuns, pc>>

GetStatDict(paths, plans) ==
    /\ CanCall
    /\ \E path \in paths, plan \in plans :
          Commit("get_stat_dict", "", [NoArgs EXCEPT !.path = path],
                 get_stat_dict(World(plan, FALSE), path))
    /\ calls' = calls + 1
    /\ UNCHANGED <<alive, closeRuns, pc>>

Remove(paths, plans) ==
    /\ CanCall
    /\ \E path \in paths, plan \in plans :
          Commit("remove", "", [NoArgs EXCEPT !.path = path],
                 remove(World(plan, FALSE), path))
    /\ calls' = calls + 1
    /\ UNCHANGED <<alive, closeRuns, pc>>

\* close(), __del__() or the finalizer firing, up to the call of __close
CloseCall(c) ==
    /\ ret.op = "idle"
    /\ pc[c] = "idle"
    /\ IF detach(alive)
       THEN /\ alive' = FALSE
            /\ pc' = [pc EXCEPT ![c] = "closing"]
       ELSE UNCHANGED <<alive, pc>>
    /\ ret' = [Idle EXCEPT !.op = "close", !.by = c]
    /\ sentLog' = <<>>
    /\ lastWrite' = <<>>
    /\ UNCHANGED <<files, dopen, handles, packet_num, service, sock, sockCloses, closeRuns,
                   issued, wasClosed, calls, lastNum, dirs, unread, pureVars, fileVars, muxVars, threadVars, lockVars>>

\* __close(), entered by a caller detach let through
CloseBody(c) ==
    /\ ret.op = "idle"
    /\ pc[c] = "closing"
    /\ \E faults \in SUBSET (1..Len(handles)), kd \in {"status", "send"},
          chanfails \in BOOLEAN :
          Commit("__close", c, NoArgs,
                 close_body(World([faults |-> faults, fkind |-> kd], chanfails)))
    /\ closeRuns' = closeRuns + 1
    /\ pc' = [pc EXCEPT ![c] = "idle"]
    /\ UNCHANGED <<alive, calls>>

----------------------------------------------------------------------------
(* Spec: the handle life cycle.  Every operation that takes a handle, with *)
(* handles in the table and not, and failing opens and closes.             *)

Next ==
    \/ FileOpen(Paths, {"RDONLY", "WRONLY"}, NoFaults \cup OneFault({1}))
    \/ FileClose(NoFaults \cup OneFault({1}))
    \/ FileTell
    \/ FileSeek({0}, {0, 1, 2}, NoFaults)
    \/ FileTruncate({<<>>, <<0>>})
    \/ Read({"/a", ""}, OptHandles, {-1}, NoFaults \cup OneFault({2}))
    \/ Write({"/b"}, {0, 5}, OptHandles, NoFaults \cup OneFault({2}))
    \/ Return

Spec == Init /\ [][Next]_vars

----------------------------------------------------------------------------
(* SeekSpec: seeks with every whence, forward and backward, on files of    *)
(* different sizes.                                                        *)

Offsets == {-200000, -3, 0, 4}

SeekNext ==
    \/ FileOpen(Paths, {"RDONLY", "WRONLY"}, NoFaults)
    \/ FileSeek(Offsets, Whences, NoFaults \cup OneFault({3}))
    \/ FileTell
    \/ Return

SeekSpec == Init /\ [][SeekNext]_vars

(* MtimeSpec: file_set_mtime with times around 0, MTIME_LIMIT and 2^64.     *)

Times ==
    {[neg |-> n, d |-> <<0, a, b, c>>] :
        n \in BOOLEAN, a \in {0, 18, 19}, b \in {0, 1, 2, 446744073},
        c \in {0, 1, 709551615, 709551616, 999999999}}
      \ {[neg |-> TRUE, d |-> <<0, 0, 0, 0>>]}

MtimeNext ==
    \/ FileSetMtime(Paths, Times)
    \/ Return

MtimeSpec == Init /\ [][MtimeNext]_vars

(* FileSpec: a file object (idevice/files.py iPodIOBase) on the client: it  *)
(* is opened, closed by close(), __del__() and its finalizer, and the       *)
(* client is shut down, in every order.                                     *)

\* iPodIOBase.__close: if not self.closed: self._afc.file_close(self._f)
fobj_close_body(w, f) == IF f = <<>> THEN w ELSE file_close(w, f[1])

\* iPodIOBase.close(): if self.__finalizer.detach(): self.__close()
fobj_close(w, fo) == IF detach(fo.alive) THEN fobj_close_body(w, fo.f) ELSE w

\* The file object after __init__: self._f = self._afc.file_open(...), finalize(...)
FileOpened(w) ==
    IF Failed(w) THEN fobj
    ELSE [state |-> "open", f |-> <<w.val>>, h0 |-> w.val, alive |-> TRUE]

\* The file object after close(): the finalizer is dead, and self._f = None when
\* __close got to its end
FileClosed(w) ==
    [fobj EXCEPT !.alive = FALSE,
                 !.f = IF fobj.alive /\ ~Failed(w) THEN <<>> ELSE @]

\* iPodIOBase(path, mode), when the client has no file object in use
FileObjOpen ==
    /\ CanCall
    /\ ~fobj.alive
    /\ \E path \in Paths, mode \in {"RDONLY", "WRONLY"} :
          /\ CommitClient("iPodIOBase", "", [NoArgs EXCEPT !.path = path],
                          file_open(World([faults |-> {}, fkind |-> "status"], FALSE),
                                    path, mode))
          /\ fobj' = FileOpened(file_open(World([faults |-> {}, fkind |-> "status"], FALSE),
                                          path, mode))
    /\ calls' = calls + 1
    /\ UNCHANGED <<alive, closeRuns, pc>>

\* close(), __del__() or the finalizer of the file object
FileObjClose(plans) ==
    /\ ret.op = "idle"
    /\ fobj.state = "open"
    /\ \E by \in {"close", "del", "final"}, plan \in plans :
          /\ CommitClient("iPodIOBase.close", by, NoArgs,
                          fobj_close(World(plan, FALSE), fobj))
          /\ fobj' = FileClosed(fobj_close(World(plan, FALSE), fobj))
    /\ UNCHANGED <<alive, closeRuns, pc, calls>>

FileNext ==
    \/ FileObjOpen
    \/ FileObjClose(NoFaults)
    \/ FileOpen({"/b"}, {"WRONLY"}, NoFaults)
    \/ \E c \in {"close1", "final"} : CloseCall(c)
    \/ \E c \in {"close1", "final"} : CloseBody(c)
    \/ Return

FileSpec == Init /\ [][FileNext]_vars

(* ClosedSpec: every operation on a client before and after its shutdown.   *)

ClosedNext ==
    \/ FileOpen({"/a"}, {"RDONLY"}, NoFaults)
    \/ FileClose(NoFaults)
    \/ FileTell
    \/ FileSeek({0}, Whences, NoFaults)
    \/ Read({"/a", ""}, OptHandles, {-1, 0}, NoFaults)
    \/ Write({"/b"}, {0, 5}, OptHandles, NoFaults)
    \/ \E c \in {"close1", "close2"} : CloseCall(c)
    \/ \E c \in {"close1", "close2"} : CloseBody(c)
    \/ Return

ClosedSpec == Init /\ [][ClosedNext]_vars

(* ResponseSpec: requests whose reply is there, and requests after which    *)
(* the channel hands back no header.                                        *)

\* The channel ends before the reply to one of the requests numbered in idx
HeaderFault(idx) == {[faults |-> {i}, fkind |-> "nohead"] : i \in idx}

ResponseNext ==
    \/ FileOpen(Paths, {"RDONLY", "WRONLY"}, NoFaults)
    \/ FileClose(NoFaults \cup OneFault({1}) \cup HeaderFault({1}))
    \/ Return

ResponseSpec == Init /\ [][ResponseNext]_vars

(* IOSpec: write(path, data) and read(path), each opening its own handle,  *)
(* for data around the chunk sizes.                                        *)

IONext ==
    \/ Write(Paths, DataLens, {<<>>}, NoFaults)
    \/ Read(Paths, {<<>>}, {-1, 4}, NoFaults)
    \/ Return

IOSpec == Init /\ [][IONext]_vars

(* ShutdownSpec: handles are opened and closed, and close(), __del__() and *)
(* the finalizer shut the client down, in every order.                     *)

ShutdownNext ==
    \/ FileOpen({"/a"}, {"RDONLY"}, NoFaults)
    \/ FileClose(NoFaults)
    \/ \E c \in Closers : CloseCall(c)
    \/ \E c \in Closers : CloseBody(c)
    \/ Return

ShutdownSpec == Init /\ [][ShutdownNext]_vars

(* ReadSpec: reads of every size, with and without a handle, at cursors    *)
(* inside the file, at its end and beyond it.                              *)

ReadSizes == {-1, 0, 4, MAXIMUM_READ_SIZE, MAXIMUM_READ_SIZE + 1, 200000}

ReadNext ==
    \/ FileOpen({"/a"}, {"RDONLY"}, NoFaults)
    \/ FileSeek({4, 70000, 80000}, {0}, NoFaults)
    \/ Read({"/a", ""}, OptHandles, ReadSizes, NoFaults)
    \/ Write({"/a"}, {5, MAXIMUM_READ_SIZE}, {<<>>}, NoFaults)
    \/ Return

ReadSpec == Init /\ [][ReadNext]_vars

(* ThreadSpec: two threads share the client; each opens a handle, looks   *)
(* its path up and closes it, step by step, while a third caller may shut  *)
(* the client down.  A request and its response are one step: the callers  *)
(* serialize them.  A change of the table is a load and a store.           *)

\* A lock that lets everyone in
can_acquire_always(owner, t) == TRUE

\* with self._lock: an RLock is free, or held by the thread itself
can_acquire(owner, t) == owner = "none" \/ owner = t

\* What a request of a thread leaves of the world: the device and the channel
CommitDevice(w) ==
    /\ files' = w.files
    /\ dopen' = w.dopen
    /\ packet_num' = w.pn
    /\ service' = w.service
    /\ sock' = w.sock
    /\ sockCloses' = w.sockCloses
    /\ dirs' = w.dirs
    /\ unread' = w.unread
    /\ lastNum' = IF w.log = <<>> THEN lastNum ELSE w.log[Len(w.log)].num
    /\ UNCHANGED <<alive, closeRuns, pc, ret, sentLog, issued, wasClosed, lastWrite, calls,
                   pureVars, fileVars, muxVars, lockVars>>

\* file_open, the request made: handle = unpack('<Q', data)[0]
TOpened(t, r) ==
    /\ CommitDevice(r)
    /\ thr' = [thr EXCEPT ![t] = IF Failed(r) THEN [ThreadIdle EXCEPT !.n = thr[t].n + 1]
                                  ELSE [@ EXCEPT !.pc = "open_lock", !.h = r.num,
                                                 !.path = "/a", !.n = @ + 1]]
    /\ UNCHANGED <<handles, lock, shut>>

\* file_open: data = self.request(AFC_OP_FILE_OPEN, ...)
TOpenRequest(t) ==
    /\ thr[t].pc = "idle"
    /\ thr[t].n < MaxRounds
    /\ TOpened(t, Request(World([faults |-> {}, fkind |-> "status"], FALSE),
                          OpenPkt("/a", "RDONLY"), "/a", 0))

\* with self._lock, in file_open, _handle_path and file_close
TAcquire(t) ==
    /\ thr[t].pc \in {"open_lock", "path_lock", "close_lock"}
    /\ can_acquire(lock, t)
    /\ lock' = t
    /\ thr' = [thr EXCEPT ![t].pc = CASE thr[t].pc = "open_lock" -> "open_load"
                                      [] thr[t].pc = "path_lock" -> "path_read"
                                      [] thr[t].pc = "close_lock" -> "close_load",
                           ![t].tmp = <<>>]
    /\ UNCHANGED <<clientVars, pureVars, fileVars, muxVars, lockVars, shut>>

\* self._handles[handle] = path and self._handles.pop(handle, ...): the table is read
TLoad(t) ==
    /\ thr[t].pc \in {"open_load", "close_load"}
    /\ thr' = [thr EXCEPT ![t].tmp = handles,
                           ![t].pc = IF thr[t].pc = "open_load" THEN "open_store"
                                     ELSE "close_store"]
    /\ UNCHANGED <<clientVars, pureVars, fileVars, muxVars, lockVars, lock, shut>>

\* self._handles[handle] = path and self._handles.pop(handle, ...): the table is written
TStore(t) ==
    /\ thr[t].pc \in {"open_store", "close_store"}
    /\ handles' = IF thr[t].pc = "open_store"
                  THEN TablePut(thr[t].tmp, thr[t].h, thr[t].path)
                  ELSE TablePop(thr[t].tmp, thr[t].h)
    /\ thr' = [thr EXCEPT ![t].tmp = <<>>,
                           ![t].pc = IF thr[t].pc = "open_store" THEN "open_unlock"
                                     ELSE "close_unlock"]
    /\ UNCHANGED <<files, dopen, packet_num, service, sock, sockCloses, alive, closeRuns,
                   pc, ret, sentLog, issued, wasClosed, lastWrite, calls, lastNum, dirs,
                   unread, pureVars, fileVars, muxVars, lockVars, lock, shut>>

\* _handle_path: return self._handles[handle], or KeyError
TPathRead(t) ==
    /\ thr[t].pc = "path_read"
    /\ thr' = [thr EXCEPT ![t].seen = IF HasHandle(handles, thr[t].h)
                                       THEN PathOf(handles, thr[t].h) ELSE "KeyError",
                           ![t].pc = "path_unlock"]
    /\ UNCHANGED <<clientVars, pureVars, fileVars, muxVars, lockVars, lock, shut>>

\* The end of a with self._lock block
TRelease(t) ==
    /\ thr[t].pc \in {"open_unlock", "path_unlock", "close_unlock"}
    /\ lock' = IF lock = t THEN "none" ELSE lock
    /\ thr' = [thr EXCEPT ![t].pc = CASE thr[t].pc = "open_unlock" -> "holding"
                                      [] thr[t].pc = "path_unlock" -> "looked"
                                      [] thr[t].pc = "close_unlock" -> "close_request"]
    /\ UNCHANGED <<clientVars, pureVars, fileVars, muxVars, lockVars, shut>>

\* The thread that has a handle calls _handle_path (as file_seek and read do), then
\* file_close
TCall(t) ==
    /\ thr[t].pc \in {"holding", "looked"}
    /\ thr' = [thr EXCEPT ![t].pc = IF thr[t].pc = "holding" THEN "path_lock"
                                     ELSE "close_lock"]
    /\ UNCHANGED <<clientVars, pureVars, fileVars, muxVars, lockVars, lock, shut>>

\* file_close, the request made
TClosed(t, r) ==
    /\ CommitDevice(r)
    /\ thr' = [thr EXCEPT ![t] = [ThreadIdle EXCEPT !.n = thr[t].n]]
    /\ UNCHANGED <<handles, lock, shut>>

\* file_close: self.request(AFC_OP_FILE_CLOSE, ...)
TCloseRequest(t) ==
    /\ thr[t].pc = "close_request"
    /\ TClosed(t, Request(World([faults |-> {}, fkind |-> "status"], FALSE),
                          ClosePkt(thr[t].h), "", 0))

\* __close, run by another caller, the lock being free
TShutdownDone(w) ==
    /\ CommitDevice(w)
    /\ handles' = w.handles
    /\ shut' = shut \cup TableIds(handles)
    /\ UNCHANGED <<thr, lock>>

TShutdown ==
    /\ service = "open"
    /\ can_acquire(lock, "closer")
    /\ TShutdownDone(close_body(World([faults |-> {}, fkind |-> "status"], FALSE)))

ThreadNext ==
    \/ \E t \in Threads : TOpenRequest(t)
    \/ \E t \in Threads : TAcquire(t)
    \/ \E t \in Threads : TLoad(t)
    \/ \E t \in Threads : TStore(t)
    \/ \E t \in Threads : TPathRead(t)
    \/ \E t \in Threads : TRelease(t)
    \/ \E t \in Threads : TCall(t)
    \/ \E t \in Threads : TCloseRequest(t)
    \/ TShutdown

ThreadSpec == Init /\ [][ThreadNext]_vars

(* MuxSpec: a connection to the mux daemon, of either protocol, on which   *)
(* listen, connect and get_pair_record are called; the daemon answers with  *)
(* any version, type, tag and number.                                        *)

TYPE_RESULT == 1
TYPE_CONNECT == 2
TYPE_LISTEN == 3
TYPE_DEVICE_ADD == 4
TYPE_DEVICE_REMOVE == 5
TYPE_PLIST == 8

\* BinaryProtocol.VERSION and PlistProtocol.VERSION
VERSION(cls) == IF cls = "binary" THEN 0 ELSE 1

\* MuxError and its subclasses
MuxErrors == {"MuxError", "MuxVersionError", "NoMuxDeviceFound"}

\* The connection as the calls see it, and what the running call holds
MuxWorld ==
    [pkttag |-> pkttag, connected |-> connected, proto |-> proto, exc |-> "none",
     val |-> "none", mytag |-> 0, read |-> FALSE, reply |-> NoReply, resp |-> "none",
     rtag |-> -1, sent |-> FALSE, devices |-> devices, sock |-> muxSock, brk |-> "none",
     calls |-> 0, wasted |-> FALSE, dev |-> NoDevice]

MuxRaise(m, e) == IF m.exc = "none" THEN [m EXCEPT !.exc = e] ELSE m

\* sendpacket of either class: _pack, then the connected check, then the send
sendpacket(m, req) ==
    IF m.exc # "none" THEN m
    ELSE IF m.proto = "binary" /\ req \notin {TYPE_CONNECT, TYPE_LISTEN}
    THEN MuxRaise(m, "ValueError")
    ELSE IF m.connected THEN MuxRaise(m, "MuxError")
    ELSE IF m.brk = "send" THEN MuxRaise(m, "MuxError")
    ELSE [m EXCEPT !.sent = TRUE]

\* BinaryProtocol.getpacket and PlistProtocol.getpacket, reading the reply r
getpacket(m, r) ==
    IF m.exc # "none" THEN m
    ELSE IF m.connected THEN MuxRaise(m, "MuxError")
    ELSE IF m.brk = "recv" THEN MuxRaise(m, "MuxError")
    ELSE IF r.version # VERSION(m.proto) THEN MuxRaise([m EXCEPT !.read = TRUE, !.reply = r],
                                                      "MuxVersionError")
    ELSE IF m.proto = "binary"
    THEN IF r.wtype \in {TYPE_RESULT, TYPE_DEVICE_ADD, TYPE_DEVICE_REMOVE}
         THEN [m EXCEPT !.read = TRUE, !.reply = r, !.resp = r.wtype, !.rtag = r.tag]
         ELSE MuxRaise([m EXCEPT !.read = TRUE, !.reply = r], "MuxError")
    ELSE IF r.wtype # TYPE_PLIST
         THEN MuxRaise([m EXCEPT !.read = TRUE, !.reply = r], "MuxError")
         ELSE [m EXCEPT !.read = TRUE, !.reply = r, !.resp = r.mtype, !.rtag = r.tag]

\* proto.TYPE_RESULT
ResultType(cls) == IF cls = "binary" THEN TYPE_RESULT ELSE "Result"

\* MuxConnection._getreply, the packet read
getreply_typed(m) ==
    IF m.exc # "none" THEN m
    ELSE IF m.resp = ResultType(m.proto) THEN m
    ELSE MuxRaise(m, "MuxError")

getreply(m, r) == getreply_typed(getpacket(m, r))

\* mytag = self.pkttag; self.pkttag += 1
TakeTag(m) == [m EXCEPT !.mytag = m.pkttag, !.pkttag = m.pkttag + 1]

\* return data['Number']
exchange_number(m) ==
    IF m.exc # "none" THEN m
    ELSE IF m.reply.number < 0 THEN MuxRaise(m, "KeyError")
    ELSE [m EXCEPT !.val = m.reply.number]

\* if recvtag != mytag: raise MuxError
exchange_checked(m) ==
    IF m.exc # "none" THEN m
    ELSE IF m.rtag # m.mytag THEN MuxRaise(m, "MuxError")
    ELSE exchange_number(m)

\* _exchange that takes any reply
exchange_anytag(m, req, r) == exchange_number(getreply(sendpacket(TakeTag(m), req), r))

\* MuxConnection._exchange
exchange(m, req, r) == exchange_checked(getreply(sendpacket(TakeTag(m), req), r))

\* MuxConnection.listen, the exchange made
listen_checked(m) ==
    IF m.exc # "none" THEN m
    ELSE IF m.val # 0 THEN MuxRaise([m EXCEPT !.val = "none"], "MuxError")
    ELSE [m EXCEPT !.val = "None"]

listen(m, r) == listen_checked(exchange(m, TYPE_LISTEN, r))

\* MuxConnection.connect, the exchange made
connect_checked(m) ==
    IF m.exc # "none" THEN m
    ELSE IF m.val # 0 THEN MuxRaise([m EXCEPT !.val = "none"], "MuxError")
    ELSE [m EXCEPT !.connected = TRUE, !.val = "sock"]

connect(m, r) == connect_checked(exchange(m, TYPE_CONNECT, r))

\* UsbmuxdClient.get_pair_record, the packet read
pair_record_checked(m) ==
    IF m.exc # "none" THEN m
    ELSE IF m.rtag # m.mytag THEN MuxRaise(m, "MuxError")
    ELSE IF m.reply.record = "none" THEN MuxRaise(m, "KeyError")
    ELSE [m EXCEPT !.val = m.reply.record]

get_pair_record(m, r) ==
    pair_record_checked(getpacket(sendpacket(TakeTag(m), "ReadPairRecord"), r))

\* proto.TYPE_DEVICE_ADD and proto.TYPE_DEVICE_REMOVE
AddType(cls) == IF cls = "binary" THEN TYPE_DEVICE_ADD ELSE "Attached"

RemoveType(cls) == IF cls = "binary" THEN TYPE_DEVICE_REMOVE ELSE "Detached"

\* The serial of a device: bytes out of BinaryProtocol._unpack, a str out of a plist
SerialOf(cls, r) == [kind |-> IF cls = "binary" THEN "bytes" ELSE "str", s |-> r.serial]

RemoveAt(devs, i) == SubSeq(devs, 1, i - 1) \o SubSeq(devs, i + 1, Len(devs))

\* for dev in self.devices: if dev.devid == data['DeviceID']: self.devices.remove(dev)
\* (the list shrinks under the loop, whose index goes on)
RECURSIVE RemoveLoop(_, _, _)
RemoveLoop(devs, i, id) ==
    IF i > Len(devs) THEN devs
    ELSE IF devs[i].devid = id THEN RemoveLoop(RemoveAt(devs, i), i + 1, id)
    ELSE RemoveLoop(devs, i + 1, id)

\* MuxConnection._processpacket, the packet read
processpacket_read(m) ==
    IF m.exc # "none" THEN m
    ELSE IF m.resp = AddType(m.proto)
    THEN [m EXCEPT !.devices = Append(@, [devid |-> m.reply.devid,
                                          serial |-> SerialOf(m.proto, m.reply)])]
    ELSE IF m.resp = RemoveType(m.proto)
    THEN [m EXCEPT !.devices = RemoveLoop(@, 1, m.reply.devid)]
    ELSE MuxRaise(m, "MuxError")

processpacket(m, r) == processpacket_read(getpacket(m, r))

\* process that reads whatever the mode
process_anymode(m, sel, r) ==
    IF m.exc # "none" THEN m
    ELSE IF sel = "exc" THEN MuxRaise([m EXCEPT !.sock = "closed"], "MuxError")
    ELSE IF sel = "read" THEN processpacket(m, r)
    ELSE m

\* MuxConnection.process; sel is what select reports of the socket
process(m, sel, r) ==
    IF m.exc # "none" THEN m
    ELSE IF m.connected THEN MuxRaise(m, "MuxError")
    ELSE IF sel = "exc" THEN MuxRaise([m EXCEPT !.sock = "closed"], "MuxError")
    ELSE IF sel = "read" THEN processpacket(m, r)
    ELSE m

Truthy(serial) == serial.kind # "none" /\ serial.s # ""

\* for device in devices: if device.serial == serial: return device
RECURSIVE FirstWithSerial(_, _, _)
FirstWithSerial(devs, i, serial) ==
    IF i > Len(devs) THEN 0
    ELSE IF devs[i].serial = serial THEN i
    ELSE FirstWithSerial(devs, i + 1, serial)

\* USBMux.find_device, the polling over
find_select(m, serial) ==
    IF m.exc # "none" THEN m
    ELSE IF m.devices = <<>> THEN MuxRaise(m, "NoMuxDeviceFound")
    ELSE IF ~Truthy(serial) THEN [m EXCEPT !.val = "device", !.dev = m.devices[1]]
    ELSE IF FirstWithSerial(m.devices, 1, serial) = 0 THEN MuxRaise(m, "NoMuxDeviceFound")
    ELSE [m EXCEPT !.val = "device",
                   !.dev = m.devices[FirstWithSerial(m.devices, 1, serial)]]

\* One more call of process, counted
Polled(m) == [m EXCEPT !.calls = @ + 1, !.wasted = @ \/ m.devices # <<>>]

\* find_device that polls max_attempts times whatever it finds
RECURSIVE find_poll_all(_, _, _, _)
find_poll_all(m, attempts, max, evs) ==
    IF m.exc # "none" THEN m
    ELSE IF attempts < max
    THEN find_poll_all(process(Polled(m), evs[attempts + 1].sel, evs[attempts + 1].r),
                       attempts + 1, max, evs)
    ELSE m

\* while not self.devices and attempts < max_attempts: self.process(timeout)
RECURSIVE find_poll(_, _, _, _)
find_poll(m, attempts, max, evs) ==
    IF m.exc # "none" THEN m
    ELSE IF m.devices = <<>> /\ attempts < max
    THEN find_poll(process(Polled(m), evs[attempts + 1].sel, evs[attempts + 1].r),
                   attempts + 1, max, evs)
    ELSE m

\* USBMux.find_device
find_device(m, serial, max, evs) == find_select(find_poll(m, 0, max, evs), serial)

\* The replies of the daemon to a request
Replies ==
    [version : {0, 1}, wtype : {TYPE_RESULT, TYPE_DEVICE_ADD, TYPE_PLIST},
     mtype : {"Result", "Attached"}, tag : 1..MaxTag, number : {-1, 0, 3},
     record : {"none", "rec"}, devid : {0}, serial : {""}]

\* The answers to Listen and Connect, and to ReadPairRecord
NumberReplies == {r \in Replies : r.record = "none"}

RecordReplies == {r \in Replies : r.number = -1}

DevSerial(id) == IF id = 1 THEN "s1" ELSE "s2"

\* The packets the daemon sends a listener: of the binary and of the plist kind
EventPackets ==
    {[version |-> v, wtype |-> t.w, mtype |-> t.m, tag |-> 0, number |-> -1,
      record |-> "none", devid |-> d, serial |-> DevSerial(d)] :
        v \in {0, 1}, d \in 1..MaxDevices,
        t \in {[w |-> TYPE_DEVICE_ADD, m |-> ""], [w |-> TYPE_DEVICE_REMOVE, m |-> ""],
               [w |-> TYPE_RESULT, m |-> ""], [w |-> TYPE_PLIST, m |-> "Attached"],
               [w |-> TYPE_PLIST, m |-> "Detached"], [w |-> TYPE_PLIST, m |-> "Result"]}}

\* What select reports, with the packet that is read if there is one
Events ==
    {[sel |-> "idle", r |-> NoReply], [sel |-> "exc", r |-> NoReply]}
        \cup {[sel |-> "read", r |-> r] : r \in EventPackets}

\* The events that do not make the device list longer than MaxDevices
Fits(e) == e.r.wtype \in {TYPE_DEVICE_ADD, TYPE_PLIST} => Len(devices) < MaxDevices

MuxCommitAs(op, arg, m) ==
    /\ pkttag' = m.pkttag
    /\ connected' = m.connected
    /\ devices' = m.devices
    /\ muxSock' = m.sock
    /\ muxRet' = [op |-> op, mytag |-> m.mytag, read |-> m.read, reply |-> m.reply,
                  exc |-> m.exc, val |-> m.val, sent |-> m.sent, calls |-> m.calls,
                  wasted |-> m.wasted, arg |-> arg, before |-> devices,
                  dev |-> m.dev]
    /\ UNCHANGED <<proto, usbmux, clientVars, pureVars, fileVars, threadVars, lockVars>>

MuxCommit(op, m) == MuxCommitAs(op, NoFind, m)

MuxListen ==
    /\ pkttag < MaxTag
    /\ muxSock = "open"
    /\ \E r \in NumberReplies : MuxCommit("listen", listen(MuxWorld, r))

MuxConnect ==
    /\ pkttag < MaxTag
    /\ muxSock = "open"
    /\ \E r \in NumberReplies : MuxCommit("connect", connect(MuxWorld, r))

\* get_pair_record is a method of UsbmuxdClient, whose protocol is PlistProtocol
MuxGetPairRecord ==
    /\ pkttag < MaxTag
    /\ muxSock = "open"
    /\ proto = "plist"
    /\ \E r \in RecordReplies : MuxCommit("get_pair_record", get_pair_record(MuxWorld, r))

\* An event of each kind: nothing, a broken socket, a device of either protocol, a
\* result and a removal
FewEvents ==
    {e \in Events : e.sel = "read" =>
        /\ e.r.devid = 1
        /\ e.r.version = (IF e.r.wtype = TYPE_PLIST THEN 1 ELSE 0)
        /\ e.r.wtype # TYPE_DEVICE_REMOVE
        /\ e.r.mtype # "Result"}

MuxProcess(evs) ==
    /\ usbmux.state # "failed"
    /\ muxSock = "open"
    /\ \E e \in evs :
        /\ Fits(e)
        /\ MuxCommit("process", process(MuxWorld, e.sel, e.r))

FindSerials == {NoSerial, [kind |-> "str", s |-> ""], [kind |-> "str", s |-> "s1"],
                [kind |-> "bytes", s |-> "s2"]}

MuxFindDevice ==
    /\ usbmux.state = "up"
    /\ muxSock = "open"
    /\ \E serial \in FindSerials, max \in 0..MaxAttempts :
       \E evs \in [1..max -> FewEvents] :
          MuxCommitAs("find_device", [serial |-> serial, max |-> max],
                      find_device(MuxWorld, serial, max, evs))

\* MuxConnection.__init__ over a socket that breaks as brk says
Fresh(cls, brk) ==
    [MuxWorld EXCEPT !.pkttag = 1, !.connected = FALSE, !.proto = cls, !.devices = <<>>,
                     !.sock = "open", !.brk = brk]

\* USBMux.__init__: the listener it keeps
StartCommit(m, first, second) ==
    /\ pkttag' = m.pkttag
    /\ connected' = m.connected
    /\ devices' = m.devices
    /\ muxSock' = m.sock
    /\ proto' = m.proto
    /\ muxRet' = [MuxIdle EXCEPT !.op = "USBMux", !.exc = m.exc, !.mytag = m.mytag,
                                 !.read = m.read, !.reply = m.reply, !.sent = m.sent]
    /\ usbmux' = [state |-> IF m.exc = "none" THEN "up" ELSE "failed",
                  version |-> IF m.exc = "none" THEN VERSION(m.proto) ELSE -1,
                  listens |-> (IF first.sent THEN <<"binary">> ELSE <<>>)
                              \o (IF second /\ m.sent THEN <<"plist">> ELSE <<>>),
                  first |-> first.exc]
    /\ UNCHANGED <<clientVars, pureVars, fileVars, threadVars, lockVars>>

\* USBMux.__init__ that tries the plist protocol after any failure
Started_anyerror(first, brk2, r2) ==
    IF first.exc = "none" THEN StartCommit(first, first, FALSE)
    ELSE StartCommit(listen(Fresh("plist", brk2), r2), first, TRUE)

\* USBMux.__init__, the binary Listen made: except MuxVersionError
Started(first, brk2, r2) ==
    IF first.exc = "MuxVersionError"
    THEN StartCommit(listen(Fresh("plist", brk2), r2), first, TRUE)
    ELSE StartCommit(first, first, FALSE)

Breaks == {"none", "send", "recv"}

\* The answers to the Listen of a starting USBMux
StartReplies == {r \in NumberReplies : r.tag \in {1, 2}}

MuxStartup ==
    /\ usbmux.state = "none"
    /\ muxRet = MuxIdle
    /\ \E brk1 \in Breaks, brk2 \in Breaks, r1 \in StartReplies, r2 \in StartReplies :
          Started(listen(Fresh("binary", brk1), r1), brk2, r2)

\* MuxConnection.__init__ with either class
MuxSpecInit ==
    /\ ClientInit
    /\ ThreadInit
    /\ LockInit
    /\ dictIn = <<>>
    /\ dictOut = NoDict
    /\ pkttag = 1
    /\ connected = FALSE
    /\ proto \in {"binary", "plist"}
    /\ muxRet = MuxIdle
    /\ devices = <<>>
    /\ muxSock = "open"
    /\ usbmux = NoMux

MuxNext == MuxListen \/ MuxConnect \/ MuxGetPairRecord \/ MuxProcess(FewEvents)

MuxSpec == MuxSpecInit /\ [][MuxNext]_vars

(* FindSpec: a USBMux is made, its listener hears of devices, and          *)
(* find_device is called.                                                    *)

FindNext == MuxStartup \/ MuxProcess(Events) \/ MuxFindDevice

FindSpec == Init /\ [][FindNext]_vars

(* LockSpec: a LockdownClient is constructed against a device, a mux        *)
(* daemon and pairing-record stores of every kind, then asked to start      *)
(* services and to stop its session.                                         *)

\* The client as the calls see it, with the local cache, and what the running call holds
LockWorld ==
    [svc |-> ld.svc, svcs |-> ld.svcs, paired |-> ld.paired, record |-> ld.record,
     session_id |-> ld.session_id, sslfile |-> ld.sslfile, ssl |-> ld.ssl,
     channels |-> ld.channels, sess |-> ld.sess, cache |-> cache, exc |-> "none",
     ret |-> "None", val |-> "none", sent |-> <<>>, persisted |-> FALSE, vp1 |-> NoVp,
     pairOut |-> NoPair, pubkey |-> "unasked", events |-> <<>>]

\* What a call does to the channels and the device, in its order
Event(L, ev, arg) == [L EXCEPT !.events = Append(@, [ev |-> ev, arg |-> arg])]

\* __init__, up to self.svc = PlistService(62078, udid, device)
NewClient ==
    [LockWorld EXCEPT !.svc = "open", !.svcs = 1, !.paired = FALSE, !.record = "none",
                      !.session_id = "none", !.sslfile = FALSE, !.ssl = FALSE,
                      !.channels = 0, !.sess = "unasked",
                      !.events = <<[ev |-> "open", arg |-> ""]>>]

LdRaise(L, e) == IF L.exc = "none" THEN [L EXCEPT !.exc = e] ELSE L

\* PlistService.plist_request: the request is sent; its answer is the caller's argument
plist_request(L, req, sid) ==
    IF L.exc # "none" THEN L
    ELSE Event([L EXCEPT !.sent = Append(@, [req |-> req, sid |-> sid])], "request", req)

\* _verify_query_type, the answer q read
verify_answered(L, q) ==
    IF L.exc # "none" THEN L
    ELSE IF q # "lockdown" THEN LdRaise(L, "InitializationError")
    ELSE L

\* _verify_query_type that reads no Type
verify_query_type_unread(L, q) == plist_request(L, "QueryType", "none")

verify_query_type(L, q) == verify_answered(plist_request(L, "QueryType", "none"), q)

\* self.device_info = self.get_value()
get_info(L) == plist_request(L, "GetValue", "none")

\* plistlib.load(folder + '%s.plist' % self.identifier): load reads from a file object,
\* and is given a str, whatever the store holds
load_system_store(env) == "AttributeError"

\* The daemon's answer to ReadPairRecord
DaemonReply(d) ==
    [version |-> 1, wtype |-> TYPE_PLIST, mtype |-> "Result",
     tag |-> IF d = "badtag" THEN 2 ELSE 1, number |-> -1,
     record |-> IF d = "rec" THEN "rec" ELSE "none", devid |-> 0, serial |-> ""]

\* pair_record = UsbmuxdClient().get_pair_record(self.udid)
vp_daemon(L, m) ==
    IF m.exc # "none" THEN LdRaise(L, m.exc)
    ELSE [L EXCEPT !.record = "daemon"]

\* validate_pairing: the except branch
vp_fallback(L, env) ==
    IF env.ios > 13
    THEN vp_daemon(L, get_pair_record(Fresh("plist", "none"), DaemonReply(env.daemon)))
    ELSE IF L.cache # "none" THEN [L EXCEPT !.record = L.cache]
    ELSE [L EXCEPT !.ret = "False"]

\* validate_pairing: the pairing record is looked for
vp_load(L, env) ==
    IF L.exc # "none" THEN L
    ELSE IF load_system_store(env) = "record" THEN [L EXCEPT !.record = "sys"]
    ELSE vp_fallback(L, env)

\* if not resp or 'Error' in resp: return False
vp_validated(L, v) ==
    IF L.exc # "none" THEN L
    ELSE IF v # "ok" THEN [Event(L, "answer", v) EXCEPT !.ret = "False"]
    ELSE Event(L, "answer", v)

\* ValidatePair whose answer is not looked at
vp_validate_unchecked(L, env, v) ==
    IF L.exc # "none" \/ L.ret = "False" THEN L
    ELSE IF env.ios < 11
    THEN Event(plist_request(L, "ValidatePair", "none"), "answer", v)
    ELSE L

\* validate_pairing: ValidatePair for an ios_version below 11.0
vp_validate(L, env, v) ==
    IF L.exc # "none" \/ L.ret = "False" THEN L
    ELSE IF env.ios < 11 THEN vp_validated(plist_request(L, "ValidatePair", "none"), v)
    ELSE L

\* validate_pairing, the answer s to StartSession read
vp_started(L, s) ==
    IF L.exc # "none" THEN L
    ELSE IF s = "none" THEN LdRaise([L EXCEPT !.sess = s], "AttributeError")
    ELSE [L EXCEPT !.sess = s,
                   !.session_id = IF s \in {"sid", "sid+ssl"} THEN "sid" ELSE "none",
                   !.sslfile = @ \/ s = "sid+ssl",
                   !.ssl = @ \/ s = "sid+ssl",
                   !.paired = TRUE,
                   !.ret = "True"]

vp_session(L, s) ==
    IF L.exc # "none" \/ L.ret = "False" THEN L
    ELSE vp_started(plist_request(L, "StartSession", "none"), s)

\* validate_pairing returns
vp_returned(L) == IF L.exc # "none" THEN L ELSE Event(L, "validated", L.ret)

\* LockdownClient.validate_pairing
validate_pairing(L, env, v, s) ==
    vp_returned(vp_session(vp_validate(
        vp_load([Event(L, "validate", "") EXCEPT !.ret = "None"], env), env, v), s))

\* pair, the answer p to the Pair request read
pair_answered(L, p) ==
    IF L.exc # "none" THEN L
    ELSE IF p \in {"success", "escrow"}
    THEN [L EXCEPT !.cache = "new", !.persisted = TRUE, !.paired = TRUE, !.ret = "True"]
    ELSE IF p = "none" THEN LdRaise(L, "TypeError")
    ELSE IF p = "password"
    THEN LdRaise([Event(L, "close", "") EXCEPT !.svc = "closed"], "NotTrustedError")
    ELSE LdRaise([Event(L, "close", "") EXCEPT !.svc = "closed"], "PairingError")

\* pair, the public key pk got: '' ends it, and no certificate is made of no key
pair_keyed(L, pk, p) ==
    IF L.exc # "none" THEN L
    ELSE IF pk = "" THEN [L EXCEPT !.pubkey = pk, !.ret = "False"]
    ELSE IF pk = "absent" THEN LdRaise([L EXCEPT !.pubkey = pk], "TypeError")
    ELSE pair_answered(plist_request([L EXCEPT !.pubkey = pk], "Pair", "none"), p)

PairSent(sent) == \E i \in 1..Len(sent) : sent[i].req = "Pair"

\* How pair ended
pair_noted(L, p) ==
    [L EXCEPT !.pairOut = [ans |-> IF PairSent(L.sent) THEN p ELSE "unasked",
                           exc |-> L.exc, closed |-> L.svc = "closed",
                           persisted |-> L.persisted, ret |-> L.ret]]

\* LockdownClient.pair
pair(L, pk, p) ==
    pair_noted(pair_keyed([plist_request(L, "GetValue", "none") EXCEPT !.ret = "None"],
                          pk, p), p)

\* __init__: if not self.validate_pairing(): raise FatalPairingError
init_revalidated(L) ==
    IF L.exc # "none" THEN L
    ELSE IF L.ret = "False" THEN LdRaise(L, "FatalPairingError")
    ELSE L

\* __init__ that validates again on the channel it has
init_repaired_samechannel(L, env, a) ==
    IF L.exc # "none" THEN L
    ELSE init_revalidated(validate_pairing(L, env, a.validate2, a.session2))

\* __init__, pair over: self.svc = PlistService(...), then validate_pairing again
init_repaired(L, env, a) ==
    IF L.exc # "none" THEN L
    ELSE init_revalidated(validate_pairing([Event(L, "open", "")
                                              EXCEPT !.svc = "open", !.svcs = @ + 1,
                                                     !.ssl = FALSE],
                                           env, a.validate2, a.session2))

\* How the first validate_pairing ended
vp_noted(L) ==
    [L EXCEPT !.vp1 = [src |-> L.record, ret |-> L.ret, exc |-> L.exc, sent |-> L.sent]]

\* __init__, the first validate_pairing over
init_validated(L, env, a) ==
    IF L.exc # "none" \/ L.ret = "True" THEN L
    ELSE init_repaired(pair(L, a.pubkey, a.pair), env, a)

\* self.paired = True
init_done(L) == IF L.exc # "none" THEN L ELSE [L EXCEPT !.paired = TRUE]

\* LockdownClient.__init__
init(L, env, a) ==
    init_done(init_validated(
        vp_noted(validate_pairing(get_info(verify_query_type(L, a.qtype)),
                                  env, a.validate1, a.session1)), env, a))

\* start_service, the answer r read
service_answered(L, r) ==
    IF L.exc # "none" THEN L
    ELSE IF r \in {"none", "password", "error"} THEN LdRaise(L, "StartServiceError")
    ELSE [L EXCEPT !.channels = @ + 1, !.val = "service"]

\* start_service of a paired client
service_paired(L, escrow, r) ==
    IF escrow = "True" /\ L.record = "none" THEN LdRaise(L, "TypeError")
    ELSE service_answered(plist_request(L, "StartService", "none"), r)

\* start_service that asks whether paired or not
start_service_unpaired(L, escrow, r) == service_paired(L, escrow, r)

\* LockdownClient.start_service
start_service(L, escrow, r) ==
    IF ~L.paired THEN LdRaise(L, "NotPairedError")
    ELSE service_paired(L, escrow, r)

\* stop_session, the answer r read
session_stopped(L, r) ==
    IF L.exc # "none" THEN L
    ELSE IF r # "success" THEN LdRaise([L EXCEPT !.session_id = "none"],
                                       "CannotStopSessionError")
    ELSE [L EXCEPT !.session_id = "none", !.val = "resp"]

\* stop_session that keeps the session id
stop_session_kept(L, r) ==
    IF L.session_id # "none" /\ L.svc # "none"
    THEN [session_stopped(plist_request(L, "StopSession", L.session_id), r)
            EXCEPT !.session_id = L.session_id]
    ELSE [L EXCEPT !.val = "None"]

\* LockdownClient.stop_session
stop_session(L, r) ==
    IF L.session_id # "none" /\ L.svc # "none"
    THEN session_stopped(plist_request(L, "StopSession", L.session_id), r)
    ELSE [L EXCEPT !.val = "None"]

\* The stores and the device version a client meets
Envs == [sys : BOOLEAN, ios : {10, 12, 14}, daemon : {"rec", "none", "badtag"}]

\* The answers of the device to the requests of __init__, in their order
Scripts ==
    [qtype : {"lockdown", "other"}, validate1 : {"ok", "error", "none"},
     session1 : {"sid", "sid+ssl", "error", "none"}, pubkey : {"key", "", "absent"},
     pair : {"success", "escrow", "password", "error", "empty", "none"},
     validate2 : {"ok", "error"}, session2 : {"sid", "sid+ssl", "error", "none"}]

LdCommit(op, L, env, answer) ==
    /\ ld' = [state |-> IF op # "init" THEN ld.state
                        ELSE IF L.exc = "none" THEN "up" ELSE "failed",
              svc |-> L.svc, svcs |-> L.svcs, paired |-> L.paired, record |-> L.record,
              session_id |-> L.session_id, sslfile |-> L.sslfile, ssl |-> L.ssl,
              channels |-> L.channels, sess |-> L.sess]
    /\ cache' = L.cache
    /\ ldRet' = [op |-> op, exc |-> L.exc, val |-> L.val, sent |-> L.sent, env |-> env,
                 cache0 |-> cache, vp1 |-> L.vp1, pairOut |-> L.pairOut,
                 pubkey |-> L.pubkey, sid0 |-> ld.session_id, paired0 |-> ld.paired,
                 channels0 |-> ld.channels, answer |-> answer, events |-> L.events]
    /\ UNCHANGED <<clientVars, pureVars, fileVars, threadVars, muxVars>>

LdConstruct ==
    /\ ld.state = "none"
    /\ \E env \in Envs, a \in Scripts : LdCommit("init", init(NewClient, env, a), env, a.qtype)

LdStartService ==
    /\ ld.state = "up"
    /\ ld.channels < MaxChannels
    /\ \E escrow \in {"None", "True", "bag"},
          r \in {"none", "port", "port+ssl", "password", "error"} :
          LdCommit("start_service", start_service(LockWorld, escrow, r), NoEnv, r)

LdStopSession ==
    /\ ld.state = "up"
    /\ \E r \in {"none", "success", "fail"} :
          LdCommit("stop_session", stop_session(LockWorld, r), NoEnv, r)

\* The local cache holds a record of an earlier run, or none
LockSpecInit ==
    /\ ClientInit
    /\ ThreadInit
    /\ MuxInit
    /\ dictIn = <<>>
    /\ dictOut = NoDict
    /\ ld = NoClient
    /\ ldRet = LdIdle
    /\ cache \in {"none", "cache"}

LockNext == LdConstruct \/ LdStartService \/ LdStopSession

LockSpec == LockSpecInit /\ [][LockNext]_vars

(* ServiceSpec: start_service and stop_session on a LockdownClient whose    *)
(* paired, record and session_id attributes have every value.               *)

Managers ==
    {[NoClient EXCEPT !.state = "up", !.svc = "open", !.svcs = 1, !.paired = pd,
                      !.record = rec, !.session_id = sid] :
        pd \in BOOLEAN, rec \in {"none", "cache"}, sid \in {"none", "sid"}}

ServiceSpecInit ==
    /\ ClientInit
    /\ ThreadInit
    /\ MuxInit
    /\ dictIn = <<>>
    /\ dictOut = NoDict
    /\ ld \in Managers
    /\ ldRet = LdIdle
    /\ cache = "none"

ServiceNext == LdStartService \/ LdStopSession

ServiceSpec == ServiceSpecInit /\ [][ServiceNext]_vars

(* DictSpec: _as_dict applied to every data of at most MaxData characters. *)

RECURSIVE DataOf(_)
DataOf(n) ==
    IF n = 0 THEN {<<>>}
    ELSE DataOf(n - 1) \cup {Append(d, c) : d \in DataOf(n - 1), c \in Chars}

DictInit ==
    /\ ClientInit
    /\ ThreadInit
    /\ LockInit
    /\ MuxInit
    /\ dictIn \in DataOf(MaxData)
    /\ dictOut = NoDict

AsDict ==
    /\ dictOut = NoDict
    /\ dictOut' = as_dict(dictIn)
    /\ UNCHANGED <<dictIn, clientVars, threadVars, lockVars, muxVars>>

DictNext == AsDict

DictSpec == DictInit /\ [][DictNext]_vars

(* DirSpec: directories are made, filled, listed and removed, with paths   *)
(* of ASCII and of other characters, and with requests the device rejects. *)

\* One of the requests numbered in idx is answered with a non-success status:
\* unknown error, or object not found
StatusFault(idx) == {[faults |-> {i}, fkind |-> kd] : i \in idx, kd \in {"status", "notfound"}}

DirNext ==
    \/ MakeDirectory({"/d", "/u"}, NoFaults)
    \/ FileOpen({"/d/x", "/u"}, {"WRONLY"}, NoFaults)
    \/ ListDir({"/", "/d", "/u"}, NoFaults \cup StatusFault({1}))
    \/ GetStatDict({"/a", "/d", "/u"}, NoFaults)
    \/ FileClose(NoFaults \cup StatusFault({1}))
    \/ Remove({"/a", "/d", "/d/x"}, NoFaults \cup StatusFault({1, 2, 3}))
    \/ Return

DirSpec == Init /\ [][DirNext]_vars

----------------------------------------------------------------------------
(* The claims *)

TheHandle == ret.args.h[1]

SeekPackets(log) == {i \in DOMAIN log : log[i].op = "FILE_SEEK"}

\* The offset file_seek(h, offset, whence) is to resolve to, read off the device
Resolved(h, offset, whence) ==
    CASE whence = 0 -> offset
      [] whence = 1 -> dopen[h].pos + offset
      [] whence = 2 -> BLen(files[PathOf(handles, h)]) + offset

Rejected(h, offset, whence) ==
    \/ /\ whence = 1
       /\ h \in DOMAIN dopen
       /\ HasHandle(handles, h)
       /\ \/ dopen[h].pos + offset < 0
          \/ dopen[h].pos + offset > BLen(files[PathOf(handles, h)])
    \/ whence = 2 /\ offset > 0
    \/ whence \notin {0, 1, 2}

\* C2: file_seek fails and sends no FILE_SEEK when whence is 1 and tell + offset is
\* outside [0, size], when whence is 2 and offset > 0, and when whence is not 0, 1 or
\* 2; the handle table is as it was.
C2_SeekRejects ==
    [][(/\ ret.op = "idle"
        /\ ret'.op = "file_seek"
        /\ Rejected(ret'.args.h[1], ret'.args.off, ret'.args.whence))
       => /\ ret'.exc # ""
          /\ SeekPackets(sentLog') = {}
          /\ handles' = handles]_vars

C2_Witness ==
    /\ ret.op = "file_seek"
    /\ ret.args.whence = 1
    /\ ret.args.off = 4
    /\ ret.exc = "iOSError"
    /\ Len(sentLog) = 2
    /\ sentLog[2].op = "GET_FILE_INFO"
    /\ sentLog[2].reply = "SUCCESS"
    /\ sentLog[2].rnum < 4

\* C3: read(path) after write(path, data), both opening their own handle and both
\* successful, returns data.
C3_RoundTrip ==
    (/\ ret.op = "read"
     /\ ret.exc = ""
     /\ ret.args.h = <<>>
     /\ ret.args.size = <<-1>>
     /\ lastWrite # <<>>
     /\ lastWrite[1].path = ret.args.path)
    => ret.out = lastWrite[1].data

C3_Witness ==
    /\ ret.op = "read"
    /\ ret.exc = ""
    /\ ret.args.size = <<-1>>
    /\ lastWrite # <<>>
    /\ lastWrite[1].path = ret.args.path
    /\ BLen(lastWrite[1].data) = 100000
    /\ Len(sentLog) = 5

CloseOf(log, h) == {i \in DOMAIN log : log[i].op = "FILE_CLOSE" /\ log[i].h = h}

\* C4: however close(), __del__() and the finalizer interleave, __close is entered at
\* most once, the service channel is closed at most once, shutdown requests at most
\* one FILE_CLOSE per handle, and a shutdown call that finds the finalizer dead
\* changes nothing and does not raise.
C4_ShutdownOnce ==
    /\ [](/\ closeRuns <= 1
          /\ sockCloses <= 1
          /\ ret.op = "__close" => \A h \in HandleIds : Cardinality(CloseOf(sentLog, h)) <= 1
          /\ ret.op \in {"close", "__close"} => ret.exc = "")
    /\ [][(ret'.op = "close" /\ ~alive)
          => UNCHANGED <<files, dopen, handles, packet_num, service, sock, sockCloses,
                         alive, closeRuns, pc>>]_vars

C4_Witness ==
    /\ ret.op = "close"
    /\ ret.by = "final"
    /\ pc["close1"] = "closing"
    /\ pc["final"] = "idle"
    /\ Len(handles) = 2
    /\ sockCloses = 0

\* C5: file_close(h) for a handle that was closed before and is not in the handle
\* table sends no request and does not raise.
C5_CloseClosedIsNoop ==
    [][(/\ ret.op = "idle"
        /\ ret'.op = "file_close"
        /\ ret'.args.h[1] \in wasClosed
        /\ ~HasHandle(handles, ret'.args.h[1]))
       => (sentLog' = <<>> /\ ret'.exc = "")]_vars

\* C6: the handle table holds the handle ids that successful FILE_OPEN replies
\* handed out and that were not passed to file_close since, each with the path it
\* was opened with, and each once.
C6_HandleTable ==
    /\ TableIds(handles) = DOMAIN issued
    /\ \A h \in DOMAIN issued : PathOf(handles, h) = issued[h]
    /\ Len(handles) = Cardinality(TableIds(handles))

C6_Witness ==
    /\ ret.op = "file_open"
    /\ ret.exc # ""
    /\ Len(handles) = 1
    /\ wasClosed # {}

HandleOps == {"file_tell", "file_seek", "file_truncate", "read", "write"}

\* C7: file_tell, file_seek, file_truncate, read and write, called with a handle id
\* that is not in the handle table, fail.
C7_UnknownHandleFails ==
    (/\ ret.op \in HandleOps
     /\ ret.args.h # <<>>
     /\ ~HasHandle(handles, TheHandle))
    => ret.exc # ""

\* C8: when file_close(h) has returned or raised, h is not in the handle table.
C8_CloseRemoves == ret.op = "file_close" => ~HasHandle(handles, TheHandle)

C8_Witness ==
    /\ ret.op = "file_close"
    /\ ret.exc # ""
    /\ sentLog[1].fault # ""
    /\ TheHandle \in DOMAIN dopen
    /\ TheHandle \notin DOMAIN issued

\* C9: __close requests a FILE_CLOSE for every handle of the table while the channel
\* is open, then closes the channel; failing closes are not raised and stop nothing;
\* the table is empty afterwards.
C9_ShutdownClosesAll ==
    [][(/\ ret.op = "idle"
        /\ ret'.op = "__close"
        /\ service = "open")
       => /\ \A i \in DOMAIN handles : CloseOf(sentLog', handles[i].h) # {}
          /\ \A j \in DOMAIN sentLog' : sentLog'[j].sent \/ sentLog'[j].fault = "send"
          /\ ret'.exc = ""
          /\ handles' = <<>>
          /\ sockCloses' = sockCloses + 1
          /\ service' = "none"]_vars

C9_Witness ==
    /\ ret.op = "__close"
    /\ Len(sentLog) = 2
    /\ sentLog[1].fault = "status"
    /\ sentLog[2].reply = "SUCCESS"
    /\ ret.caught = 2
    /\ sockCloses = 1

\* C10: the handle read(path) or write(path, data) opens itself is closed on the
\* device and out of the handle table when the call has returned or raised.
C10_ImplicitHandleReleased ==
    (ret.op \in {"read", "write"} /\ ret.opened # <<>>)
    => (~HasHandle(handles, ret.opened[1]) /\ ret.opened[1] \notin DOMAIN dopen)

\* C11: the packet_num fields of the packets handed to the channel, over all calls,
\* successful or failed, are strictly increasing and start at 0.
C11_PacketNumIncreases ==
    [][\A i \in DOMAIN sentLog' :
          /\ sentLog'[i].num > (IF i = 1 THEN lastNum ELSE sentLog'[i - 1].num)
          /\ (lastNum = -1 /\ i = 1) => sentLog'[i].num = 0]_vars

C11_Witness ==
    /\ Len(sentLog) = 2
    /\ sentLog[1].fault = ""
    /\ sentLog[2].fault # ""
    /\ sentLog[2].num > sentLog[1].num
    /\ sentLog[1].num > 0
    /\ ret.exc # ""

\* C12: every packet handed to the channel declares entire_length = 40 + the
\* number of payload bytes written after the header, for bytes and for str payloads,
\* and this_length = entire_length unless a length was given.
C12_DeclaredLengths ==
    \A i \in DOMAIN sentLog :
        /\ sentLog[i].entire = 40 + sentLog[i].wire
        /\ sentLog[i].length = 0 => sentLog[i].this = sentLog[i].entire

OpPackets(log, op) == {i \in DOMAIN log : log[i].op = op}

\* The data parts of the WRITE packets of a log, concatenated in send order
RECURSIVE WrittenData(_)
WrittenData(log) ==
    IF log = <<>> THEN <<>>
    ELSE IF Head(log).op = "WRITE" THEN Cat(Head(log).data, WrittenData(Tail(log)))
    ELSE WrittenData(Tail(log))

CeilDiv(a, b) == (a + b - 1) \div b

\* C13: a successful write(path, data, handle) sends ceil(len(data) / 32768) WRITE
\* requests, each with the handle and at most 32768 data bytes, declaring
\* this_length 48 and entire_length 48 + chunk length; the parts concatenated in send
\* order are data; it returns len(data), and sends no WRITE for empty data.
C13_WriteChunks ==
    (ret.op = "write" /\ ret.exc = "")
    => LET data == ret.args.data
           ws == OpPackets(sentLog, "WRITE")
           handle == IF ret.args.h = <<>> THEN ret.opened[1] ELSE ret.args.h[1]
       IN  /\ Cardinality(ws) = CeilDiv(BLen(data), 32768)
           /\ \A i \in ws : /\ sentLog[i].h = handle
                            /\ BLen(sentLog[i].data) <= 32768
                            /\ BLen(sentLog[i].data) > 0
                            /\ sentLog[i].this = 48
                            /\ sentLog[i].entire = 48 + BLen(sentLog[i].data)
                            /\ sentLog[i].sent
           /\ WrittenData(sentLog) = data
           /\ ret.val = BLen(data)
           /\ data = <<>> => ws = {}

C13_Witness ==
    /\ ret.op = "write"
    /\ ret.exc = ""
    /\ BLen(ret.args.data) = 100000
    /\ Cardinality(OpPackets(sentLog, "WRITE")) = 4
    /\ sentLog[Len(sentLog)].entire = 48 + 1696
    /\ sentLog[Len(sentLog)].this = 48

\* The sizes the READ packets of a log ask for, added up
RECURSIVE AskedFor(_)
AskedFor(log) ==
    IF log = <<>> THEN 0
    ELSE (IF Head(log).op = "READ" THEN Head(log).size ELSE 0) + AskedFor(Tail(log))

\* The reply number of the one packet of a log with operation op
ReplyNum(log, op) == log[CHOOSE i \in OpPackets(log, op) : TRUE].rnum

\* What read(path, handle, size) is to read: remaining = stat size - tell when size
\* is negative or more than that, else size
Amount(log, size) ==
    LET remaining == ReplyNum(log, "GET_FILE_INFO") - ReplyNum(log, "FILE_TELL")
    IN  IF size < 0 \/ remaining < size THEN remaining ELSE size

StatusFailure(r) == r.op # "idle" /\ r.exc \in IOSErrors /\ r.errStatus # ""

\* C15: a request that fails with a non-success status leaves the client usable:
\* the channel is open and the whole error response was read, so that the next
\* reply is read from its start, and the call that failed leaves the handle table
\* as it was, but for the entry file_close removes.
C15_ErrorsPerCall ==
    /\ [](unread = 0)
    /\ [][StatusFailure(ret')
          => /\ service' = "open"
             /\ sock' = "open"
             /\ handles' = IF ret'.op = "file_close"
                           THEN TablePop(handles, ret'.args.h[1]) ELSE handles]_vars

\* The operations that let an exception of request out as it is
PlainOps ==
    {"file_open", "file_close", "file_tell", "file_seek", "file_truncate", "read", "write",
     "listdir", "make_directory", "get_stat_dict"}

\* C16: request raises the file-not-found error exactly when the reply is a STATUS
\* packet with object-not-found and a path was given to it; any other non-success
\* status raises the generic error, which carries the status and the operation; a
\* reply that is no STATUS packet, or a STATUS packet with the success code, raises
\* neither.
C16_ErrorMapping ==
    (ret.op \in PlainOps /\ sentLog # <<>> /\ sentLog[Len(sentLog)].rop # "")
    => LET last == sentLog[Len(sentLog)]
           bad == last.rop = "STATUS" /\ last.rstatus # "SUCCESS"
           notfound == bad /\ last.rstatus = "OBJECT_NOT_FOUND" /\ last.reqpath # ""
       IN  /\ notfound <=> ret.exc = "iFileNotFoundError"
           /\ (bad /\ ~notfound) => /\ ret.exc = "iOSError"
                                   /\ ret.errStatus = last.rstatus
                                   /\ ret.errOp = last.op
           /\ ~bad => ~StatusFailure(ret)

C16_Witness ==
    /\ ret.op = "file_close"
    /\ ret.exc = "iOSError"
    /\ ret.errStatus = "OBJECT_NOT_FOUND"
    /\ ret.errOp = "FILE_CLOSE"
    /\ sentLog[1].reqpath = ""

\* The entries of the directory path, in the state
Entries(path) == Children([files |-> files, dirs |-> dirs], path)

\* remove's first request was rejected, and the requests it made after it, if any,
\* were answered
RemoveRejected(r, log) ==
    /\ r.op = "remove"
    /\ log # <<>>
    /\ log[1].rop = "STATUS"
    /\ log[1].rstatus \in {"OBJECT_NOT_FOUND", "UNKNOWN_ERROR"}
    /\ \A i \in 2..Len(log) : log[i].fault = ""

\* C17: remove(path) the device rejects, with object-not-found or with unknown
\* error, ends in the directory-not-empty error (errno ENOTEMPTY) when path is a
\* directory with entries, and in the error request raised, unchanged, when path is
\* an empty directory or no directory.
C17_RemoveNotEmpty ==
    [][RemoveRejected(ret', sentLog')
       => LET path == ret'.args.path
              status == sentLog'[1].rstatus
          IN  IF path \in dirs /\ Entries(path) # {}
              THEN /\ ret'.exc \in IOSErrors
                   /\ ret'.errno = "ENOTEMPTY"
              ELSE /\ ret'.exc = (IF status = "OBJECT_NOT_FOUND"
                                  THEN "iFileNotFoundError" ELSE "iOSError")
                   /\ ret'.errStatus = status
                   /\ ret'.errno # "ENOTEMPTY"]_vars

C17_Witness ==
    /\ ret.op = "remove"
    /\ ret.args.path = "/d"
    /\ ret.errno = "ENOTEMPTY"
    /\ ret.exc = "iFileNotFoundError"
    /\ Len(sentLog) = 3
    /\ sentLog[3].reply = "SUCCESS"
    /\ "/d/x" \in DOMAIN files

\* The places of the NULs of dictIn, and its NUL-terminated segments
Nuls == {i \in DOMAIN dictIn : dictIn[i] = 0}

KthNul(k) == CHOOSE i \in Nuls : Cardinality({j \in Nuls : j < i}) = k - 1

Segment(k) == SubSeq(dictIn, IF k = 1 THEN 1 ELSE KthNul(k - 1) + 1, KthNul(k) - 1)

OddPlaces == {k \in 1..Cardinality(Nuls) : k % 2 = 1}

\* C18 as stated: for data of 2n NUL-terminated segments _as_dict returns the
\* mapping that sends every segment at an odd place to the segment after it; data
\* with an odd number of NUL-terminated segments is rejected with an error.
C18_AsDictPairs ==
    dictOut # NoDict
    => IF Cardinality(Nuls) % 2 = 0
       THEN /\ dictOut.status = "dict"
            /\ DOMAIN dictOut.value = {Segment(k) : k \in OddPlaces}
            /\ \A k \in OddPlaces : dictOut.value[Segment(k)] = Segment(k + 1)
       ELSE dictOut.status = "AssertionError"

\* C18 as amended: a segment that stands at several odd places is sent to the
\* segment after the last of them.
C18_AsDictLastWins ==
    dictOut # NoDict
    => IF Cardinality(Nuls) % 2 = 0
       THEN /\ dictOut.status = "dict"
            /\ DOMAIN dictOut.value = {Segment(k) : k \in OddPlaces}
            /\ \A k \in OddPlaces :
                   (\A m \in OddPlaces : m > k => Segment(m) # Segment(k))
                   => dictOut.value[Segment(k)] = Segment(k + 1)
       ELSE dictOut.status = "AssertionError"

C18_Witness ==
    /\ dictIn = <<0, 0, 0, 1, 0>>
    /\ dictOut.status = "dict"
    /\ dictOut.value = (<<>> :> <<1>>)

\* The threads whose handle is to be in the table: stored, and not yet taken out
Holding(t) ==
    thr[t].pc \in {"open_unlock", "holding", "path_lock", "path_read", "path_unlock",
                   "looked", "close_lock", "close_load", "close_store"}

\* C19: with threads that open and close handles of their own on one client, in
\* every interleaving the table holds the handles opened and not closed since, each
\* with its path and once, and a thread that looks its handle up finds it.
C19_ThreadsKeepTable ==
    /\ TableIds(handles) = {thr[t].h : t \in {u \in Threads : Holding(u) /\ thr[u].h \notin shut}}
    /\ \A t \in Threads : (Holding(t) /\ thr[t].h \notin shut)
                           => PathOf(handles, thr[t].h) = thr[t].path
    /\ Len(handles) = Cardinality(TableIds(handles))
    /\ \A t \in Threads : thr[t].pc = "path_unlock"
                           => \/ thr[t].seen = thr[t].path
                              \/ thr[t].h \in shut /\ thr[t].seen = "KeyError"

C19_Witness ==
    /\ thr["t1"].pc = "open_lock"
    /\ thr["t2"].pc = "close_store"
    /\ thr["t1"].n = 2
    /\ lock = "t2"
    /\ Len(handles) = 1

\* C20: a call of listen, connect or get_pair_record that read a reply with another
\* tag than the request's raised MuxError, gave no number and no pair record, and
\* left the connection out of connected mode.
C20_TagCorrelation ==
    (muxRet.op # "none" /\ muxRet.read /\ muxRet.reply.tag # muxRet.mytag)
        => /\ muxRet.exc \in MuxErrors
           /\ muxRet.val = "none"
           /\ ~connected

C20_Witness ==
    /\ muxRet.op = "connect"
    /\ muxRet.read
    /\ muxRet.reply.tag # muxRet.mytag
    /\ muxRet.reply.wtype = TYPE_RESULT
    /\ muxRet.reply.number = 0
    /\ muxRet.reply.version = VERSION(proto)
    /\ proto = "binary"
    /\ muxRet.mytag = 2

\* C21: a connection in connected mode stays in it, and every call made on it ends
\* with MuxError, writes no packet and leaves the device list alone; the mode is
\* entered by a connect that returned, and a connect that raised leaves control mode.
C21_ConnectedForEver ==
    [][/\ connected => /\ connected'
                       /\ muxRet'.exc = "MuxError"
                       /\ ~muxRet'.sent
                       /\ devices' = devices
       /\ (~connected /\ connected') => (muxRet'.op = "connect" /\ muxRet'.exc = "none")
       /\ (~connected /\ muxRet'.op = "connect" /\ muxRet'.exc # "none") => ~connected']_vars

C21_Witness ==
    /\ connected
    /\ muxRet.op = "process"
    /\ muxRet.exc = "MuxError"
    /\ pkttag = 3

\* The devices of a list
DeviceSet(devs) == {devs[i] : i \in 1..Len(devs)}

\* C22: find_device calls process at most max_attempts times and only while the device
\* set is empty; what it returns is a device of the set, with the serial asked for (the
\* first device when none is asked for); it raises NoMuxDeviceFound when the set is
\* empty after all the attempts or has no device of that serial.
C22_FindDevice ==
    muxRet.op = "find_device" =>
        /\ muxRet.calls <= muxRet.arg.max
        /\ ~muxRet.wasted
        /\ (muxRet.exc = "none") = (muxRet.dev # NoDevice)
        /\ muxRet.exc \in {"none", "NoMuxDeviceFound", "MuxError", "MuxVersionError"}
        /\ muxRet.exc \in {"MuxError", "MuxVersionError"} => muxRet.calls >= 1
        /\ muxRet.exc = "none" =>
              /\ muxRet.dev \in DeviceSet(devices)
              /\ Truthy(muxRet.arg.serial) => muxRet.dev.serial = muxRet.arg.serial
              /\ ~Truthy(muxRet.arg.serial) => muxRet.dev = devices[1]
        /\ muxRet.exc = "NoMuxDeviceFound" =>
              \/ devices = <<>> /\ muxRet.calls = muxRet.arg.max
              \/ /\ devices # <<>>
                 /\ Truthy(muxRet.arg.serial)
                 /\ \A d \in DeviceSet(devices) : d.serial # muxRet.arg.serial
        /\ (devices = <<>> /\ muxRet.calls = muxRet.arg.max) => muxRet.exc # "none"

C22_Witness ==
    /\ muxRet.op = "find_device"
    /\ muxRet.before = <<>>
    /\ muxRet.calls = 2
    /\ muxRet.arg.serial = [kind |-> "str", s |-> "s1"]
    /\ muxRet.dev.devid = 1
    /\ muxRet.dev.serial.s = "s1"

\* C23: a USBMux writes its first Listen in the binary protocol; it makes the plist
\* attempt exactly when the binary one ended with a version mismatch; any other
\* failure of the binary attempt, and any failure of the plist attempt, ends __init__.
C23_Fallback ==
    usbmux.state # "none" =>
        /\ Len(usbmux.listens) >= 1 => usbmux.listens[1] = "binary"
        /\ Len(usbmux.listens) <= 2
        /\ Len(usbmux.listens) = 2 => usbmux.listens[2] = "plist"
        /\ (proto = "plist") = (usbmux.first = "MuxVersionError")
        /\ usbmux.first = "none" =>
              usbmux.state = "up" /\ usbmux.version = 0 /\ usbmux.listens = <<"binary">>
        /\ usbmux.first \notin {"none", "MuxVersionError"} =>
              usbmux.state = "failed" /\ Len(usbmux.listens) <= 1
        /\ usbmux.state = "up" => usbmux.version = VERSION(proto)
        /\ (usbmux.state = "failed" /\ muxRet.op = "USBMux") => muxRet.exc \in MuxErrors \cup {"KeyError"}

C23_Witness ==
    /\ usbmux.state = "up"
    /\ usbmux.version = 1
    /\ usbmux.listens = <<"binary", "plist">>

\* C24: a LockdownClient that __init__ returned is paired, has a pairing record and
\* has the SessionID of a StartSession that succeeded; a StartSession answered with
\* an error or without SessionID ends __init__ with an exception.
C24_NoPartialSession ==
    ldRet.op = "init" =>
        /\ ld.state = "up" => /\ ld.paired
                              /\ ld.record # "none"
                              /\ ld.session_id = "sid"
                              /\ ld.sess \in {"sid", "sid+ssl"}
        /\ ld.sess \in {"error", "none"} => ld.state = "failed"

\* A store holds a record of the device
SourceHasRecord(env, c) == env.sys \/ env.daemon = "rec" \/ c # "none"

\* C25: when one of the three pairing-record sources has a record of the device,
\* __init__ sends no Pair request.
C25_PairingPrecedence ==
    (ldRet.op = "init" /\ SourceHasRecord(ldRet.env, ldRet.cache0)) => ~PairSent(ldRet.sent)

\* The first source, in the order system store, daemon, cache, that has a record
FirstSource(env, c) ==
    IF env.sys THEN "sys" ELSE IF env.daemon = "rec" THEN "daemon" ELSE c

\* C26: validate_pairing uses the record of the first source that has one, in the
\* order system store, daemon, local cache; with no record anywhere it returns False,
\* raises nothing and sends neither ValidatePair nor StartSession.
C26_SourceOrder ==
    (ldRet.op = "init" /\ ldRet.vp1.exc # "InitializationError") =>
        /\ ldRet.vp1.src = FirstSource(ldRet.env, ldRet.cache0)
        /\ FirstSource(ldRet.env, ldRet.cache0) = "none" =>
              /\ ldRet.vp1.ret = "False"
              /\ ldRet.vp1.exc = "none"
              /\ \A i \in 1..Len(ldRet.vp1.sent) :
                    ldRet.vp1.sent[i].req \notin {"ValidatePair", "StartSession"}

\* C27: pair, its Pair request answered, ends in one of three ways: the record
\* persisted (Success or an EscrowBag), the channel closed and NotTrustedError
\* (PasswordProtected), or the channel closed and PairingError (anything else, an
\* empty or missing answer too); the record is persisted in the first way only.
C27_PairOutcomes ==
    (ldRet.op = "init" /\ ldRet.pairOut.ans # "unasked") =>
        \/ /\ ldRet.pairOut.ans \in {"success", "escrow"}
           /\ ldRet.pairOut.persisted
           /\ ldRet.pairOut.exc = "none"
        \/ /\ ldRet.pairOut.ans = "password"
           /\ ldRet.pairOut.closed
           /\ ldRet.pairOut.exc = "NotTrustedError"
           /\ ~ldRet.pairOut.persisted
        \/ /\ ldRet.pairOut.ans \in {"error", "empty", "none"}
           /\ ldRet.pairOut.closed
           /\ ldRet.pairOut.exc = "PairingError"
           /\ ~ldRet.pairOut.persisted

\* C28: when GetValue gives pair no public key (nothing, or ''), no Pair request is
\* sent, no record is persisted and __init__ ends with an exception.
C28_NoPublicKey ==
    (ldRet.op = "init" /\ ldRet.pubkey \in {"", "absent"}) =>
        /\ ~PairSent(ldRet.sent)
        /\ ~ldRet.pairOut.persisted
        /\ cache = ldRet.cache0
        /\ ld.state = "failed"

C30_StopSession ==
    ldRet.op = "stop_session" =>
        /\ ld.session_id = "none"
        /\ ldRet.sid0 # "none" =>
              /\ ldRet.sent = <<[req |-> "StopSession", sid |-> ldRet.sid0]>>
              /\ (ldRet.answer = "success") = (ldRet.exc = "none")
              /\ ldRet.answer # "success" => ldRet.exc = "CannotStopSessionError"
        /\ ldRet.sid0 = "none" => (ldRet.sent = <<>> /\ ldRet.exc = "none")

C30_Witness ==
    /\ ldRet.op = "stop_session"
    /\ ldRet.sid0 = "none"
    /\ ld.sess = "sid"
    /\ ldRet.sent = <<>>
    /\ ldRet.exc = "none"

\* C31: when the Type of the QueryType answer is not that of the lockdown service,
\* __init__ ends with InitializationError and QueryType is the one request that was
\* sent: no GetValue, ValidatePair, StartSession or Pair.
C31_FailFast ==
    (ldRet.op = "init" /\ ldRet.answer # "lockdown") =>
        /\ ld.state = "failed"
        /\ ldRet.exc = "InitializationError"
        /\ ldRet.sent = <<[req |-> "QueryType", sid |-> "none"]>>

C31_Witness ==
    /\ ldRet.op = "init"
    /\ ldRet.answer = "other"
    /\ ldRet.exc = "InitializationError"
    /\ Len(ldRet.sent) = 1

\* What happened at place i of the construction that returned
IsEvent(i, ev, arg) == ldRet.events[i] = [ev |-> ev, arg |-> arg]

Places == 1..Len(ldRet.events)

Count(ev, arg) == Cardinality({i \in Places : IsEvent(i, ev, arg)})

\* C34: for an iOS version below 11.0 validate_pairing sends ValidatePair and reads
\* its answer right before it sends StartSession, and a ValidatePair with no answer
\* or an Error in it makes validate_pairing return False with no StartSession sent;
\* for 11.0 and above no ValidatePair is sent.
C34_ValidateBeforeSession ==
    ldRet.op = "init" =>
        /\ ldRet.env.ios >= 11 => Count("request", "ValidatePair") = 0
        /\ ldRet.env.ios < 11 =>
              /\ \A j \in Places :
                    IsEvent(j, "request", "StartSession") =>
                        /\ j > 2
                        /\ IsEvent(j - 2, "request", "ValidatePair")
                        /\ IsEvent(j - 1, "answer", "ok")
              /\ \A i \in Places :
                    (ldRet.events[i].ev = "answer" /\ ldRet.events[i].arg # "ok") =>
                        /\ i < Len(ldRet.events)
                        /\ IsEvent(i + 1, "validated", "False")

C34_Witness ==
    /\ ldRet.op = "init"
    /\ ldRet.env.ios < 11
    /\ Count("request", "ValidatePair") = 2
    /\ Count("answer", "ok") = 1
    /\ Count("answer", "error") = 1
    /\ Count("request", "StartSession") = 1

\* C35: __init__ runs validate_pairing at most twice and sends at most one Pair; a
\* Pair is sent only after the first validate_pairing returned False and before the
\* second; a new control channel is opened right before the second validate_pairing;
\* and when the second returns False __init__ ends with FatalPairingError.
C35_BoundedConstruction ==
    ldRet.op = "init" =>
        /\ Count("validate", "") <= 2
        /\ Count("request", "Pair") <= 1
        /\ \A j \in Places :
              IsEvent(j, "request", "Pair") =>
                  /\ \E i \in 1..(j - 1) : IsEvent(i, "validated", "False")
                  /\ Cardinality({i \in 1..(j - 1) : IsEvent(i, "validate", "")}) = 1
        /\ \A j \in Places :
              (IsEvent(j, "validate", "") /\ \E i \in 1..(j - 1) : IsEvent(i, "validate", ""))
                  => IsEvent(j - 1, "open", "")
        /\ (Count("validate", "") = 2 /\ IsEvent(Len(ldRet.events), "validated", "False"))
              => (ld.state = "failed" /\ ldRet.exc = "FatalPairingError")

C35_Witness ==
    /\ ldRet.op = "init"
    /\ Count("validate", "") = 2
    /\ Count("request", "Pair") = 1
    /\ ldRet.pairOut.ret = "True"
    /\ ldRet.exc = "FatalPairingError"

\* C36: when __init__ ends with InitializationError, NotTrustedError, PairingError
\* or FatalPairingError every control channel it opened has been closed, and a
\* second channel is opened only after the first was closed.
C36_ChannelsReleased ==
    ldRet.op = "init" =>
        /\ ldRet.exc \in {"InitializationError", "NotTrustedError", "PairingError",
                          "FatalPairingError"}
              => Count("close", "") = Count("open", "")
        /\ \A j \in Places :
              (j > 1 /\ IsEvent(j, "open", "")) => \E i \in 1..(j - 1) : IsEvent(i, "close", "")

\* process read a packet of the kind k ("add" or "remove") of the protocol in use
Processed(k) ==
    /\ muxRet.op = "process"
    /\ muxRet.exc = "none"
    /\ muxRet.read
    /\ \/ /\ proto = "binary"
          /\ muxRet.reply.wtype = (IF k = "add" THEN TYPE_DEVICE_ADD ELSE TYPE_DEVICE_REMOVE)
       \/ /\ proto = "plist"
          /\ muxRet.reply.wtype = TYPE_PLIST
          /\ muxRet.reply.mtype = (IF k = "add" THEN "Attached" ELSE "Detached")

OtherIds(devs, id) == SelectSeq(devs, LAMBDA d : d.devid # id)

\* C33: after process has handled a remove event for device id d the device list
\* holds no device with id d, whatever was added before (the same id more than once
\* too), and the devices of other ids are as they were; an add event appends the
\* device and leaves the others as they were.
C33_RemoveDeletesId ==
    /\ Processed("remove") =>
          /\ \A i \in 1..Len(devices) : devices[i].devid # muxRet.reply.devid
          /\ OtherIds(devices, muxRet.reply.devid) = OtherIds(muxRet.before, muxRet.reply.devid)
    /\ Processed("add") =>
          /\ Len(devices) = Len(muxRet.before) + 1
          /\ SubSeq(devices, 1, Len(muxRet.before)) = muxRet.before
          /\ devices[Len(devices)].devid = muxRet.reply.devid

\* file_set_mtime sent one SET_FILE_TIME request, with the time t
SentTime(t) ==
    /\ Len(sentLog) = 1
    /\ sentLog[1].op = "SET_FILE_TIME"
    /\ sentLog[1].sent
    /\ sentLog[1].path = ret.args.path
    /\ sentLog[1].mtime = t

\* 0 <= t < 2,000,000,000
IsSeconds(t) == ~t.neg /\ t.d[1] = 0 /\ t.d[2] = 0 /\ t.d[3] < 2

\* C32 as stated: file_set_mtime sends mtime * 1,000,000,000 for every mtime below
\* 2,000,000,000 and sends mtime as it is for every mtime at or above it.
C32_EveryInputSent ==
    ret.op = "file_set_mtime" =>
        IF ret.args.mtime.neg \/ IsSeconds(ret.args.mtime)
        THEN SentTime([ret.args.mtime EXCEPT !.d = <<@[2], @[3], @[4], 0>>])
        ELSE SentTime(ret.args.mtime)

\* C32: file_set_mtime sends mtime * 1,000,000,000, scaled once, for every mtime
\* from 0 to 1,999,999,999, and sends mtime as it is for every mtime from
\* 2,000,000,000 to 2^64 - 1; for a negative mtime and for one above 2^64 - 1 it
\* sends nothing and ends with struct.error.
C32_SetMtime ==
    ret.op = "file_set_mtime" =>
        IF IsSeconds(ret.args.mtime)
        THEN SentTime([neg |-> FALSE,
                       d |-> <<0, ret.args.mtime.d[3], ret.args.mtime.d[4], 0>>])
        ELSE IF UInt64Packs(ret.args.mtime) THEN SentTime(ret.args.mtime)
        ELSE sentLog = <<>> /\ ret.exc = "struct.error"

C32_Witness ==
    /\ ret.op = "file_set_mtime"
    /\ ret.args.mtime = [neg |-> FALSE, d |-> <<0, 0, 1, 999999999>>]
    /\ Len(sentLog) = 1
    /\ sentLog[1].mtime = [neg |-> FALSE, d |-> <<0, 1, 999999999, 0>>]
    /\ ret.exc = ""

\* C39: a file_seek with whence 2 sends FILE_SEEK with an offset in [0, size] only,
\* and one whose offset is below -size ends with the client's iOSError, as an
\* out-of-range seek with whence 1 does, and sends no FILE_SEEK.
C39_SeekEndInRange ==
    [][(/\ ret.op = "idle"
        /\ ret'.op = "file_seek"
        /\ ret'.args.whence = 2
        /\ HasHandle(handles, ret'.args.h[1]))
       => LET size == BLen(files[PathOf(handles, ret'.args.h[1])])
          IN  /\ \A i \in SeekPackets(sentLog') :
                    sentLog'[i].off >= 0 /\ sentLog'[i].off <= size
              /\ ret'.args.off < -size =>
                    (ret'.exc = "iOSError" /\ SeekPackets(sentLog') = {})]_vars

\* C38: a call ends without an exception only when every request it sent was
\* answered with a whole packet; a request whose response header could not be read
\* ends the call with an exception.
C38_NoHeaderIsError ==
    (ret.op = "file_close" /\ sentLog # <<>>) =>
        /\ ret.exc = "" => \A i \in DOMAIN sentLog : sentLog[i].rop \in {"STATUS", "DATA"}
        /\ (\E i \in DOMAIN sentLog : sentLog[i].fault = "nohead") => ret.exc # ""

\* The operations of a client other than its shutdown
ClientOps == {"file_open", "file_close", "file_tell", "file_seek", "read", "write"}

\* C40: once __close has run the client has no service and an empty handle table,
\* and stays so; every operation called from then on ends with an exception, no
\* packet of it is written to the channel, and the channel is not opened again.
C40_ClosedAbsorbing ==
    /\ [](closeRuns > 0 => (service = "none" /\ handles = <<>>))
    /\ [][closeRuns > 0 =>
            /\ service' = "none"
            /\ handles' = <<>>
            /\ sock' = sock
            /\ (ret.op = "idle" /\ ret'.op \in ClientOps) =>
                  /\ ret'.exc # ""
                  /\ \A i \in DOMAIN sentLog' : ~sentLog'[i].sent]_vars

\* The packets of a log that ask for the handle h to be closed and were written
SentCloses(log, h) ==
    {i \in DOMAIN log : log[i].op = "FILE_CLOSE" /\ log[i].h = h /\ log[i].sent}

\* C37: close() of a file object, its __del__() and its finalizer never raise,
\* whether the client was shut down before or not, and over the life of the object
\* at most one FILE_CLOSE is written for its handle, by the object or by the
\* shutdown of the client.
C37_FileCloseOnce ==
    /\ [](ret.op = "iPodIOBase.close" => ret.exc = "")
    /\ [](fobj.state = "open" => Cardinality(SentCloses(sentLog, fobj.h0)) <= 1)
    /\ [][(fobj.state = "open" /\ fobj.h0 \in wasClosed) =>
             SentCloses(sentLog', fobj.h0) = {}]_vars

====
